---- MODULE Spec2Model ----
(***************************************************************************)
(* Model of monty/exts/info/github_info.py: the GitHub request cache with  *)
(* its per-key locks (GithubCache, GithubInfo.fetch_data) and the issue    *)
(* reference extractor (GithubInfo.extract_issues_from_message).           *)
(***************************************************************************)
EXTENDS Integers, Sequences, FiniteSets, TLC

(***************************************************************************)
(* Bounds of the model.                                                    *)
(***************************************************************************)
\* number of tasks that call fetch_data concurrently
NumCallers == 2

\* number of fetch_data calls made in one run
MaxCalls == 2

\* longest message text, in whitespace separated tokens
MaxTokens == 3

\* number of message events (new, edited, deleted) the listeners handle
MaxEvents == 3

(***************************************************************************)
(* Program constants.                                                      *)
(***************************************************************************)
MAXIMUM_ISSUES == 6

Procs == 1..NumCallers

None == "None"

(***************************************************************************)
(* PART 1.  GithubCache and GithubInfo.fetch_data                          *)
(***************************************************************************)

\* The urls the callers fetch: an item endpoint (ISSUE_ENDPOINT) and a
\* repository listing (ORG_REPOS_ENDPOINT, the only kind holding "/repos?").
ItemUrl == "/repos/ab/cd/issues/1"
ReposUrl == "/orgs/ab/repos?per_page=100&type=public"
Urls == {ItemUrl, ReposUrl}

\* USER_REPOS_ENDPOINT, which fetch_repos falls back to.
UserReposUrl == "/users/ab/repos?per_page=100&type=public"
ListingUrls == {ReposUrl, UserReposUrl}

\* `"/repos?" in url`
IsReposListing(url) == url \in ListingUrls

\* The spellings of the method argument, and method.upper().strip().
Methods == {"GET", " get "}
UpperStrip(method) == IF method = " get " THEN "GET" ELSE method

\* cache_key = f"{method}:{url}"
CacheKey(method, url) == <<UpperStrip(method), url>>
Keys == {CacheKey(m, u) : m \in Methods, u \in Urls \cup ListingUrls}
UrlOf(key) == key[2]

\* ETag header values; NoETag is r.headers.get("ETag") returning None.
NoETag == "NoETag"
ETags == {"v1", "v2"}

\* Response payloads: bodies of 2xx answers, and GitHub's error payloads
\* ({"message": ...}) that come with the statuses of BAD_RESPONSE.
OkBodies == {"b0", "b1", "b2"}
BadBodies == {"m403", "m404"}
NoBody == "NoBody"

\* What the transport can answer.  A 304 carries no payload.
Responses ==
    {[status |-> 200, etag |-> NoETag, body |-> "b0"],
     [status |-> 200, etag |-> "v1", body |-> "b1"],
     [status |-> 200, etag |-> "v2", body |-> "b2"],
     [status |-> 403, etag |-> NoETag, body |-> "m403"],
     [status |-> 404, etag |-> "v1", body |-> "m404"],
     [status |-> 304, etag |-> NoETag, body |-> NoBody]}

\* HTTP semantics of the upstream server: it answers 304 only to a
\* conditional request (one that carried If-None-Match).
Answers(ifNoneMatch) ==
    {r \in Responses : r.status = 304 => ifNoneMatch # None}

\* A cache entry is the tuple (etag, body) given to GithubCache.set.
NoEntry == [etag |-> None, body |-> None, present |-> FALSE]
Entry(etag, body) == [etag |-> etag, body |-> body, present |-> TRUE]

\* asyncio.Lock objects live in a pool of identities; one that nothing
\* references is garbage and its identity can be handed out again.
LockIds == 1..(NumCallers + Cardinality(Keys))
\* `key not in self._locks`, and a frame that holds no lock.
NoLock == 0
\* No call made yet.
NoKey == <<"", "">>
FreshLock == [locked |-> FALSE, waiters |-> <<>>]

VARIABLES
    cache,      \* GithubCache._rediscache: key -> entry
    locks,      \* GithubCache._locks (WeakValueDictionary): key -> lock id
    lockObj,    \* the asyncio.Lock objects: id -> [locked, waiters]
    pc,         \* where each fetch_data task stands
    ckey,       \* cache_key of the task's call
    lref,       \* the lock object the task's lock() frame references
    found,      \* cached: what request_cache.get returned
    hdr,        \* kw["headers"]["If-None-Match"] of the request sent
    resp,       \* the response r the task received
    reqs,       \* history: upstream requests the call issued
    waited,     \* history: the call had to queue for the lock
    uncached,   \* history: the key had no entry when the call began
    prevResp,   \* history: latest upstream outcome of the key at the lookup
    hist,       \* history per key: "none", "rt" (2xx+validator, then 304s), "off"
    firstResp,  \* history per key: the first response, while hist is "rt"
    lastResp,   \* history per key: the latest upstream outcome of the key
    last,       \* history: the call that ended most recently
    calls       \* history: the number of fetch_data calls begun

\* The state of extract_issues_from_message (part 2).
VARIABLES
    xpc,        \* "input" before the call, "done" after it
    content,    \* message.content
    fullLinks,  \* extract_full_links
    defaultUser,\* the guild's default user
    listing,    \* what GitHub serves at the default user's listing urls
    repoIndex,  \* repos: what fetch_repos returned to the call
    issues,     \* the list returned
    xreqs       \* history: upstream requests the call issued

extractVars == <<xpc, content, fullLinks, defaultUser, listing, repoIndex, issues, xreqs>>

\* The state of the automatic issue links (part 3).
VARIABLES
    units,          \* the messages of the channel: their state and content
    autolink_cache, \* GithubInfo.autolink_cache: message id -> (response, issues)
    shown,          \* the responses the bot sent: what each one shows
    expandFeature,  \* the guild has ISSUE_EXPAND_FEATURE_NAME
    ev,             \* history: the event handled last
    events,         \* history: the number of events handled
    suspended       \* the listeners that wait for fetch_issues, by message

displayVars == <<units, autolink_cache, shown, expandFeature, ev, events, suspended>>

\* fetch_data touches nothing but the request cache and its locks.
\* A custom_id made by get_expand_button and read by swap_embed_state:
\* the values formatted, the custom_id, what the regex makes of it; tpc is
\* the position.
VARIABLES tpc, made, custom, matched

tokenVars == <<tpc, made, custom, matched>>

\* One call of fetch_issues: what GitHub answers and the caller allows,
\* the result; rpc is the position.
VARIABLES rpc, upstream, result

resolveVars == <<rpc, upstream, result>>

FetchFrame == UNCHANGED <<extractVars, displayVars, tokenVars, resolveVars>>

\* extract_issues_from_message runs no fetch_data task of its own beside
\* the calls fetch_repos makes, which reach the cache.
ExtractFrame == UNCHANGED <<locks, lockObj, pc, ckey, lref, found, hdr, resp,
                            reqs, waited, uncached, prevResp, hist, firstResp,
                            lastResp, last, calls, displayVars, tokenVars,
                            resolveVars>>

\* The listeners reach the request cache through the extraction only, and
\* leave the guild's configuration as it is.
DisplayFrame == UNCHANGED <<locks, lockObj, pc, ckey, lref, found, hdr, resp,
                            reqs, waited, uncached, prevResp, hist, firstResp,
                            lastResp, last, calls, xpc, content, fullLinks,
                            defaultUser, listing, repoIndex, issues, xreqs,
                            expandFeature, tokenVars, resolveVars>>

fetchVars == <<cache, locks, lockObj, pc, ckey, lref, found, hdr, resp, reqs,
               waited, uncached, prevResp, hist, firstResp, lastResp, last, calls>>

NoResp == [status |-> 0, etag |-> NoETag, body |-> NoBody]
RaisedResp == [status |-> -1, etag |-> NoETag, body |-> NoBody]
Raised == "Raised"

\* No call has ended yet; line is the source line of the statement that
\* ended the call (233, 242, 253: its return statements; 239: the request
\* raised).
NoCall == [proc |-> 0, key |-> NoKey, found |-> NoEntry, hdr |-> None,
           resp |-> NoResp, ret |-> None, line |-> 0, reqs |-> 0,
           waited |-> FALSE, uncached |-> FALSE, prev |-> NoResp]

\* The tasks inside the `async with self.request_cache.lock(cache_key)` block.
InLock(p) == pc[p] \in {"get", "request", "set"}
\* The tasks inside GithubCache.lock, whose frame references a lock.
Active(p) == pc[p] \in {"wait", "get", "request", "set"}

InitFetch ==
    /\ cache = [k \in Keys |-> NoEntry]
    /\ locks = [k \in Keys |-> NoLock]
    /\ lockObj = [i \in LockIds |-> FreshLock]
    /\ pc = [p \in Procs |-> "idle"]
    /\ ckey = [p \in Procs |-> NoKey]
    /\ lref = [p \in Procs |-> NoLock]
    /\ found = [p \in Procs |-> NoEntry]
    /\ hdr = [p \in Procs |-> None]
    /\ resp = [p \in Procs |-> NoResp]
    /\ reqs = [p \in Procs |-> 0]
    /\ waited = [p \in Procs |-> FALSE]
    /\ uncached = [p \in Procs |-> FALSE]
    /\ prevResp = [p \in Procs |-> NoResp]
    /\ hist = [k \in Keys |-> "none"]
    /\ firstResp = [k \in Keys |-> NoResp]
    /\ lastResp = [k \in Keys |-> NoResp]
    /\ last = NoCall
    /\ calls = 0

\* A lock identity is referenced by the frames of the tasks inside
\* GithubCache.lock; the registry's own reference is weak.
Referenced(i) == \E p \in Procs : lref[p] = i
Unused(i) == ~Referenced(i) /\ \A k \in Keys : locks[k] # i
NewLockId == CHOOSE i \in LockIds : Unused(i) /\ \A j \in LockIds : Unused(j) => i <= j

\* Mutant: a new lock for every caller, whatever the registry holds.
RegistryLookupAlwaysNew(key) == <<NewLockId, TRUE>>

\* GithubCache.lock, lines 175-179: the lock registered for the key, or a
\* new one (TRUE in the second component when it has to be created).
RegistryLookup(key) ==
    IF locks[key] = NoLock THEN <<NewLockId, TRUE>> ELSE <<locks[key], FALSE>>

\* Mutant: the lock is taken whenever nobody queues, held or not.
CanAcquireUnheld(lock) == lock.waiters = <<>>

\* asyncio.Lock.acquire without suspension: the lock is free and nobody queues.
CanAcquireNow(lock) == ~lock.locked /\ lock.waiters = <<>>

\* Mutant: the lock stays held when the block is left.
ReleasedHeld(lock) == lock

\* asyncio.Lock.release, at the exit of `async with lock`.
Released(lock) == [lock EXCEPT !.locked = FALSE]

\* fetch_data up to `async with lock`: build the key, find or create its
\* lock, then take it at once or queue for it.
Call(p, method, url) ==
    LET key == CacheKey(method, url)
        look == RegistryLookup(key)
        id == look[1]
        lock == IF look[2] THEN FreshLock ELSE lockObj[id]
    IN  /\ pc[p] = "idle"
        /\ calls < MaxCalls
        /\ calls' = calls + 1
        /\ ckey' = [ckey EXCEPT ![p] = key]
        /\ locks' = [locks EXCEPT ![key] = id]
        /\ lref' = [lref EXCEPT ![p] = id]
        /\ IF CanAcquireNow(lock)
           THEN /\ lockObj' = [lockObj EXCEPT ![id] = [lock EXCEPT !.locked = TRUE]]
                /\ pc' = [pc EXCEPT ![p] = "get"]
                /\ waited' = [waited EXCEPT ![p] = FALSE]
           ELSE /\ lockObj' = [lockObj EXCEPT ![id] =
                                   [lock EXCEPT !.waiters = Append(@, p)]]
                /\ pc' = [pc EXCEPT ![p] = "wait"]
                /\ waited' = [waited EXCEPT ![p] = TRUE]
        /\ uncached' = [uncached EXCEPT ![p] = ~cache[key].present]
        /\ UNCHANGED <<cache, found, hdr, resp, reqs, prevResp, hist, firstResp,
                       lastResp, last>>
        /\ FetchFrame

\* A queued task is woken: the lock was released and it is first in line.
Acquire(p) ==
    /\ pc[p] = "wait"
    /\ ~lockObj[lref[p]].locked
    /\ lockObj[lref[p]].waiters # <<>>
    /\ Head(lockObj[lref[p]].waiters) = p
    /\ lockObj' = [lockObj EXCEPT ![lref[p]] =
                       [locked |-> TRUE, waiters |-> Tail(@.waiters)]]
    /\ pc' = [pc EXCEPT ![p] = "get"]
    /\ UNCHANGED <<cache, locks, ckey, lref, found, hdr, resp, reqs, waited,
                   uncached, prevResp, hist, firstResp, lastResp, last, calls>>
    /\ FetchFrame

\* Leaving the `async with` block (by a return or by an exception):
\* release the lock, drop the frame and its reference to the lock, and
\* hand the outcome to the caller.
Leave(p, cached, r, nreqs, prev, value, line) ==
    /\ lockObj' = [lockObj EXCEPT ![lref[p]] = Released(@)]
    /\ lref' = [lref EXCEPT ![p] = NoLock]
    /\ pc' = [pc EXCEPT ![p] = "idle"]
    /\ last' = [proc |-> p, key |-> ckey[p], found |-> cached, hdr |-> hdr[p],
                resp |-> r, ret |-> value, line |-> line, reqs |-> nreqs,
                waited |-> waited[p], uncached |-> uncached[p], prev |-> prev]
    /\ ckey' = [ckey EXCEPT ![p] = NoKey]
    /\ found' = [found EXCEPT ![p] = NoEntry]
    /\ hdr' = [hdr EXCEPT ![p] = None]
    /\ resp' = [resp EXCEPT ![p] = NoResp]
    /\ reqs' = [reqs EXCEPT ![p] = 0]
    /\ waited' = [waited EXCEPT ![p] = FALSE]
    /\ uncached' = [uncached EXCEPT ![p] = FALSE]
    /\ prevResp' = [prevResp EXCEPT ![p] = NoResp]

\* Mutant: any entry is served without a request, validator or not.
ServedWheneverCached(cached) == cached.present

\* Lines 229-233: the entry is served without a request when it exists
\* and holds no etag.
ServedFromCache(cached) == cached.present /\ cached.etag = None

\* Lines 234-237: the If-None-Match header of the request.
IfNoneMatch(cached) == IF cached.present THEN cached.etag ELSE None

\* Lines 228-239: look the key up; an entry without etag is returned at
\* once, otherwise the request goes out, conditional when an etag is stored.
CacheGet(p) ==
    LET cached == cache[ckey[p]]
        prev == lastResp[ckey[p]]
    IN  /\ pc[p] = "get"
        /\ IF ServedFromCache(cached)
           THEN Leave(p, cached, NoResp, 0, prev, cached.body, 233)
           ELSE /\ found' = [found EXCEPT ![p] = cached]
                /\ prevResp' = [prevResp EXCEPT ![p] = prev]
                /\ hdr' = [hdr EXCEPT ![p] = IfNoneMatch(cached)]
                /\ reqs' = [reqs EXCEPT ![p] = @ + 1]
                /\ pc' = [pc EXCEPT ![p] = "request"]
                /\ UNCHANGED <<lockObj, lref, ckey, resp, waited, uncached, last>>
        /\ UNCHANGED <<cache, locks, hist, firstResp, lastResp, calls>>
        /\ FetchFrame

\* Mutant: only answers with an etag are stored, listings included.
ToStoreEtagOnly(url, r) ==
    IF r.etag # NoETag /\ 200 <= r.status /\ r.status < 300
    THEN Entry(r.etag, r.body)
    ELSE NoEntry

\* Lines 249-252: what the response makes fetch_data store, NoEntry for
\* nothing.
ToStore(url, r) ==
    IF r.etag # NoETag /\ 200 <= r.status /\ r.status < 300
    THEN Entry(r.etag, r.body)
    ELSE IF IsReposListing(url)
         THEN Entry(None, r.body)
         ELSE NoEntry

\* Mutant: the payload of the 304 itself is returned.
NotModifiedOwnBody(cached, r) == r.body

\* Line 242: the value returned on a 304.
NotModifiedBody(cached, r) == cached.body

\* History of the key's round trip: a first 2xx answer with a validator,
\* followed by nothing but 304s.
NextHist(key, r) ==
    IF hist[key] = "none"
    THEN IF r.status = 200 /\ r.etag # NoETag THEN "rt" ELSE "off"
    ELSE IF hist[key] = "rt" /\ r.status = 304 THEN "rt" ELSE "off"

\* Lines 239-253: the response arrives.
Respond(p, r) ==
    LET key == ckey[p]
        store == ToStore(UrlOf(key), r)
    IN  /\ pc[p] = "request"
        /\ r \in Answers(hdr[p])
        /\ hist' = [hist EXCEPT ![key] = NextHist(key, r)]
        /\ firstResp' = [firstResp EXCEPT ![key] =
                             IF NextHist(key, r) # "rt" THEN NoResp
                             ELSE IF hist[key] = "none" THEN r ELSE @]
        /\ lastResp' = [lastResp EXCEPT ![key] = r]
        /\ IF r.status = 304
           THEN Leave(p, found[p], r, reqs[p], prevResp[p],
                      NotModifiedBody(found[p], r), 242)
           ELSE IF store.present
                THEN /\ pc' = [pc EXCEPT ![p] = "set"]
                     /\ resp' = [resp EXCEPT ![p] = r]
                     /\ UNCHANGED <<lockObj, lref, ckey, found, hdr, reqs, waited,
                                    uncached, prevResp, last>>
                ELSE Leave(p, found[p], r, reqs[p], prevResp[p], r.body, 253)
        /\ UNCHANGED <<cache, locks, calls>>
        /\ FetchFrame

\* Lines 250 and 252: request_cache.set, then `return body`.
CacheSet(p) ==
    /\ pc[p] = "set"
    /\ cache' = [cache EXCEPT ![ckey[p]] = ToStore(UrlOf(ckey[p]), resp[p])]
    /\ Leave(p, found[p], resp[p], reqs[p], prevResp[p], resp[p].body, 253)
    /\ UNCHANGED <<locks, hist, firstResp, lastResp, calls>>
    /\ FetchFrame

\* The request raises (connection error, timeout): the exception leaves
\* the `async with` blocks, which releases the lock.
Fail(p) ==
    /\ pc[p] = "request"
    /\ Leave(p, found[p], RaisedResp, reqs[p], prevResp[p], Raised, 239)
    /\ hist' = [hist EXCEPT ![ckey[p]] = "off"]
    /\ firstResp' = [firstResp EXCEPT ![ckey[p]] = NoResp]
    /\ lastResp' = [lastResp EXCEPT ![ckey[p]] = RaisedResp]
    /\ UNCHANGED <<cache, locks, calls>>
    /\ FetchFrame

\* Mutant: the registry drops an entry although a task uses its lock.
CanReclaimInUse(key) == locks[key] # NoLock

\* The weak registry loses an entry once nothing references its lock.
CanReclaim(key) == locks[key] # NoLock /\ ~Referenced(locks[key])

Reclaim(key) ==
    /\ CanReclaim(key)
    /\ locks' = [locks EXCEPT ![key] = NoLock]
    /\ lockObj' = [lockObj EXCEPT ![locks[key]] = FreshLock]
    /\ UNCHANGED <<cache, pc, ckey, lref, found, hdr, resp, reqs, waited,
                   uncached, prevResp, hist, firstResp, lastResp, last, calls>>
    /\ FetchFrame

\* The entry's timeout (a day, 30 minutes for listings) runs out.  It is
\* far longer than the transport's timeout, so no entry expires while
\* calls for its key are under way.
Expire(key) ==
    /\ cache[key].present
    /\ \A p \in Procs : Active(p) => ckey[p] # key
    /\ cache' = [cache EXCEPT ![key] = NoEntry]
    /\ UNCHANGED <<locks, lockObj, pc, ckey, lref, found, hdr, resp, reqs, waited,
                   uncached, prevResp, hist, firstResp, lastResp, last, calls>>
    /\ FetchFrame

NextFetch ==
    \/ \E p \in Procs, m \in Methods, u \in Urls : Call(p, m, u)
    \/ \E p \in Procs : Acquire(p)
    \/ \E p \in Procs : CacheGet(p)
    \/ \E p \in Procs, r \in Responses : Respond(p, r)
    \/ \E p \in Procs : CacheSet(p)
    \/ \E p \in Procs : Fail(p)
    \/ \E k \in Keys : Reclaim(k)
    \/ \E k \in Keys : Expire(k)


(***************************************************************************)
(* PART 2.  GithubInfo.extract_issues_from_message                         *)
(*                                                                         *)
(* A message text is a sequence of whitespace separated tokens.  Neither   *)
(* regex matches whitespace, so every match lies within one token and the  *)
(* matches of a text are the matches of its tokens, in text order.  A      *)
(* token with code set stands inside a code block of the message.          *)
(***************************************************************************)

\* "org/repo#num" ("repo#num" when org is ""), the short form.
ShortTok(org, repo, num) ==
    [kind |-> "short", org |-> org, repo |-> repo, type |-> "", num |-> num,
     path |-> <<>>, query |-> "", fragment |-> "", code |-> FALSE]

\* "https://github.com/org/repo/type/num" followed by further path
\* segments ("" is the segment after a trailing slash), "?query" and
\* "#fragment".
UrlTok(org, repo, type, num, path, query, fragment) ==
    [kind |-> "url", org |-> org, repo |-> repo, type |-> type, num |-> num,
     path |-> path, query |-> query, fragment |-> fragment, code |-> FALSE]

WordTok ==
    [kind |-> "word", org |-> "", repo |-> "", type |-> "", num |-> "",
     path |-> <<>>, query |-> "", fragment |-> "", code |-> FALSE]

\* The token written inside a code block: "```" newline, tok, newline "```".
InCode(tok) == [tok EXCEPT !.code = TRUE]

\* The tokens the texts are built from.
Tokens ==
    {ShortTok("ab", "cd", "1"),
     ShortTok("ab", "CD", "1"),
     ShortTok("ab", "cd", "2"),
     ShortTok("", "cd", "1"),
     ShortTok("a", "cd", "2"),
     UrlTok("ab", "cd", "issues", "1", <<>>, "", ""),
     UrlTok("ab", "cd", "pull", "2", <<"">>, "", ""),
     UrlTok("ab", "cd", "issues", "2", <<"files">>, "", ""),
     UrlTok("ab", "cd", "issues", "1", <<>>, "", "issuecomment-5"),
     UrlTok("ab", "cd", "issues", "1", <<>>, "", "5"),
     UrlTok("ab", "cd", "pull", "2", <<"commits", "c2">>, "", ""),
     InCode(ShortTok("ab", "cd", "1")),
     WordTok}

\* [0-9]+ over the strings of the tokens.
IsDigits(str) == str \in {"1", "2", "3", "4", "5", "6", "7", "9"}

\* (?P<org>[a-zA-Z0-9][a-zA-Z0-9\-]{1,39}): two to forty characters.
OrgMatches(org) == Len(org) >= 2 /\ Len(org) <= 40

\* str.lower() over the repository names of the tokens.
Lower(str) == IF str = "CD" THEN "cd" ELSE str

\* A regex match: the regex, the groups, the token matched and its place.
Match(regex, org, repo, num, tok, pos) ==
    [re |-> regex, org |-> org, repo |-> repo, num |-> num, tok |-> tok, pos |-> pos]

\* AUTOMATIC_REGEX.finditer within one token.  The optional org group is
\* dropped when the text before the slash is no org (then the match starts
\* at the repo).  In a url the regex finds "type/num#fragment" when the
\* fragment is a number that directly follows the issue number.
AutomaticMatches(tok, pos) ==
    IF tok.kind = "short"
    THEN IF OrgMatches(tok.org)
         THEN <<Match("AUTOMATIC", tok.org, tok.repo, tok.num, tok, pos)>>
         ELSE <<Match("AUTOMATIC", None, tok.repo, tok.num, tok, pos)>>
    ELSE IF /\ tok.kind = "url" /\ tok.path = <<>> /\ tok.query = ""
            /\ IsDigits(tok.fragment)
         THEN <<Match("AUTOMATIC", tok.type, tok.num, tok.fragment, tok, pos)>>
         ELSE <<>>

\* GITHUB_ISSUE_LINK_REGEX.finditer within one token: the trailing
\* [^\s<>]* takes the rest of the token into match[0].
LinkMatches(tok, pos) ==
    IF tok.kind = "url" /\ OrgMatches(tok.org) /\ tok.type \in {"issues", "pull"}
    THEN <<Match("LINK", tok.org, tok.repo, tok.num, tok, pos)>>
    ELSE <<>>

RECURSIVE FindIter(_, _, _)
\* regex.finditer(stripped_content): the matches of the tokens from pos on.
FindIter(regex, text, pos) ==
    IF pos > Len(text) THEN <<>>
    ELSE (IF regex = "AUTOMATIC" THEN AutomaticMatches(text[pos], pos)
          ELSE LinkMatches(text[pos], pos))
         \o FindIter(regex, text, pos + 1)

\* Mutant: the link matches are chained before the short-form matches.
MatchesLinksFirst(text, extract_full_links) ==
    IF extract_full_links
    THEN FindIter("LINK", text, 1) \o FindIter("AUTOMATIC", text, 1)
    ELSE FindIter("AUTOMATIC", text, 1)

\* Lines 782-788: itertools.chain of the two scans.
Matches(text, extract_full_links) ==
    IF extract_full_links
    THEN FindIter("AUTOMATIC", text, 1) \o FindIter("LINK", text, 1)
    ELSE FindIter("AUTOMATIC", text, 1)

RECURSIVE RStripSlash(_)
\* url.path.rstrip("/") on the segments that follow the number.
RStripSlash(path) ==
    IF path # <<>> /\ path[Len(path)] = ""
    THEN RStripSlash(SubSeq(path, 1, Len(path) - 1))
    ELSE path

\* str.endswith
EndsWith(str, suffix) ==
    /\ Len(str) >= Len(suffix)
    /\ SubSeq(str, Len(str) - Len(suffix) + 1, Len(str)) = suffix

\* Lines 795-801: the link is kept when the path ends with the number and
\* the url has neither fragment nor query.
LinkAccepted(m) ==
    LET rest == RStripSlash(m.tok.path)
    IN  /\ IF rest = <<>> THEN TRUE ELSE EndsWith(rest[Len(rest)], m.num)
        /\ m.tok.fragment = "" /\ m.tok.query = ""

\* FoundIssue(organisation, repository, number, should_be_expanded)
FoundIssue(org, repo, num, expanded) ==
    [organisation |-> org, repository |-> repo, number |-> num,
     should_be_expanded |-> expanded]

\* Lines 790-816 for one match: the FoundIssue appended for it (as a one
\* element sequence), or nothing when the loop continues.  default_user
\* is what fetch_default_user returns and repos what fetch_repos returns
\* for it (lower case name -> name).
IssueOf(m, default_user, repos) ==
    LET expanded == m.re = "LINK"
        repo == Lower(m.repo)
    IN  IF m.re = "LINK" /\ ~LinkAccepted(m) THEN <<>>
        ELSE IF m.org # None
             THEN <<FoundIssue(m.org, repo, m.num, expanded)>>
             ELSE IF default_user = None THEN <<>>
                  ELSE IF repo \notin DOMAIN repos THEN <<>>
                       ELSE <<FoundIssue(default_user, repos[repo], m.num, expanded)>>

RECURSIVE Found(_, _, _)
\* The list `issues` with the place of the match each element came from.
Found(matches, default_user, repos) ==
    IF matches = <<>> THEN <<>>
    ELSE LET m == Head(matches)
             one == IssueOf(m, default_user, repos)
         IN  (IF one = <<>> THEN <<>> ELSE <<[issue |-> one[1], pos |-> m.pos]>>)
             \o Found(Tail(matches), default_user, repos)

\* FoundIssue.__hash__, lines 126-127.
Hash(issue) == <<issue.organisation, issue.repository, issue.number>>

\* FoundIssue.__eq__ as @dataclass generates it: all fields are compared.
Eq(a, b) ==
    /\ a.organisation = b.organisation
    /\ a.repository = b.repository
    /\ a.number = b.number
    /\ a.should_be_expanded = b.should_be_expanded

\* Two keys are one key of a dict when their hashes and they are equal.
SameKey(a, b) == Hash(a) = Hash(b) /\ Eq(a, b)

RECURSIVE FromKeys(_, _)
\* list(dict.fromkeys(issues, None)): the first of every key, in order.
FromKeys(keys, seen) ==
    IF keys = <<>> THEN seen
    ELSE LET i == Head(keys)
         IN  IF \E n \in DOMAIN seen : SameKey(seen[n], i)
             THEN FromKeys(Tail(keys), seen)
             ELSE FromKeys(Tail(keys), Append(seen, i))

\* The issues of a sequence of Found records.
IssuesOf(founds) == [n \in DOMAIN founds |-> founds[n].issue]

\* The elements of a sequence.
Range(seq) == {seq[n] : n \in DOMAIN seq}

\* remove_codeblocks(message.content): the text without its code blocks.
RemoveCodeblocks(text) == SelectSeq(text, LAMBDA tok : ~tok.code)

\* Mutant: the regexes scan the text as written, code blocks included.
StrippedContentRaw(text) == text

\* Line 780: stripped_content.
StrippedContent(text) == RemoveCodeblocks(text)

\* extract_issues_from_message, given what fetch_repos returns.
ExtractIssues(text, extract_full_links, default_user, repos) ==
    FromKeys(IssuesOf(Found(Matches(StrippedContent(text), extract_full_links),
                            default_user, repos)), <<>>)

\* The texts of at most MaxTokens tokens.
Texts == UNION {[1..n -> Tokens] : n \in 0..MaxTokens}

\* What fetch_default_user can return for the message's guild.
DefaultUsers == {None, "ab"}

\* Lines 289-293: the dict fetch_repos builds from a listing payload.
ReposOf(body) == IF body = "b1" THEN [r \in {"cd"} |-> "cd"] ELSE <<>>

\* What fetch_repos can return for the default user.
RepoIndexes == {ReposOf(b) : b \in OkBodies}

\* The payloads GitHub serves at the listing urls.  The default user is
\* an organisation with its listing ("b0": no repository, "b1": the
\* repository cd), a user (the organisation endpoint answers with an error
\* payload), or an account GitHub does not know at all.
OrgAccount(body) == [u \in ListingUrls |-> body]
UserAccount(body) == [u \in ListingUrls |-> IF u = ReposUrl THEN "m404" ELSE body]
NoAccount == [u \in ListingUrls |-> "m404"]
Listings == {OrgAccount("b1"), OrgAccount("b0"), UserAccount("b1"), NoAccount}

\* GitHub's answer to a request for a payload it serves: the payload, or
\* a 304 when the request carries the etag of that payload.
Answer(body, ifNoneMatch) ==
    LET full == CHOOSE r \in Responses : r.body = body
    IN  IF full.status = 200 /\ full.etag # NoETag /\ ifNoneMatch = full.etag
        THEN CHOOSE r \in Responses : r.status = 304
        ELSE full

\* fetch_data (lines 227-253) run to its end with no other caller of the
\* key: the cache it leaves, the value it returns and the requests it
\* sent.  served is the payload GitHub serves at the url.
FetchData(c, url, served) ==
    LET key == CacheKey("GET", url)
        cached == c[key]
        r == Answer(served, IfNoneMatch(cached))
        store == ToStore(url, r)
    IN  IF ServedFromCache(cached)
        THEN [cache |-> c, ret |-> cached.body, reqs |-> 0]
        ELSE IF r.status = 304
             THEN [cache |-> c, ret |-> NotModifiedBody(cached, r), reqs |-> 1]
             ELSE [cache |-> IF store.present THEN [c EXCEPT ![key] = store] ELSE c,
                   ret |-> r.body, reqs |-> 1]

\* `isinstance(resp, dict) and resp.get("message")`
IsErrorPayload(body) == body \in BadBodies

\* Lines 289-295 of fetch_repos, resp being what the last fetch_data
\* returned.  Iterating an error payload yields its keys, and
\* `repo["name"]` on a key raises TypeError.
ReposResult(resp_, nreqs) ==
    [cache |-> resp_.cache, reqs |-> nreqs, raised |-> IsErrorPayload(resp_.ret),
     repos |-> IF IsErrorPayload(resp_.ret) THEN <<>> ELSE ReposOf(resp_.ret)]

\* Lines 284-287 of fetch_repos: the user endpoint is asked when the
\* organisation endpoint returned an error payload.
ReposFallback(org, user) ==
    IF IsErrorPayload(org.ret)
    THEN ReposResult(user, org.reqs + user.reqs)
    ELSE ReposResult(org, org.reqs)

\* fetch_repos, lines 282-295.
FetchRepos(c, served) ==
    ReposFallback(FetchData(c, ReposUrl, served[ReposUrl]),
                  FetchData(FetchData(c, ReposUrl, served[ReposUrl]).cache,
                            UserReposUrl, served[UserReposUrl]))

\* Mutant: the repositories are fetched for every match, org or not.
NeedsReposAlways(m, default_user) == default_user # None

\* Lines 790-811: the loop reaches `await self.fetch_repos(org)` for the
\* match.
NeedsRepos(m, default_user) ==
    /\ ~(m.re = "LINK" /\ ~LinkAccepted(m))
    /\ m.org = None
    /\ default_user # None

\* The calls of fetch_repos one extraction makes (line 811), n of them,
\* up to one that raises.  GitHub serves the same listing to all of them,
\* so every call after the first finds the cache the first one left, is
\* served from it or answered 304, and leaves it as it is.
ReposCallsEnd(c, first, again, n) ==
    IF n = 0 THEN [cache |-> c, reqs |-> 0, raised |-> FALSE, repos |-> <<>>]
    ELSE IF first.raised \/ n = 1 THEN first
    ELSE [cache |-> again.cache, reqs |-> first.reqs + (n - 1) * again.reqs,
          raised |-> again.raised, repos |-> again.repos]

ReposCalls(c, served, n) ==
    ReposCallsEnd(c, FetchRepos(c, served),
                  FetchRepos(FetchRepos(c, served).cache, served), n)

\* What the call hands back once the calls of fetch_repos are made.
ExtractResult(text, extract_full_links, default_user, run) ==
    [cache |-> run.cache, reqs |-> run.reqs, raised |-> run.raised,
     repos |-> run.repos,
     issues |-> IF run.raised THEN <<>>
                ELSE ExtractIssues(text, extract_full_links, default_user, run.repos)]

\* One call of extract_issues_from_message from the cache c on: the cache
\* it leaves, the requests it sent, whether it raised, and its result.
ExtractRun(text, extract_full_links, default_user, served, c) ==
    ExtractResult(text, extract_full_links, default_user,
                  ReposCalls(c, served,
                             Cardinality({m \in Range(Matches(StrippedContent(text),
                                                              extract_full_links)) :
                                              NeedsRepos(m, default_user)})))

InitExtract ==
    /\ xpc = "input"
    /\ content \in Texts
    /\ fullLinks \in BOOLEAN
    /\ defaultUser \in DefaultUsers
    /\ listing \in Listings
    /\ defaultUser = None => listing = NoAccount
    /\ repoIndex = <<>>
    /\ issues = <<>>
    /\ xreqs = 0

\* No message is being processed.
IdleExtract ==
    /\ xpc = "none"
    /\ content = <<>>
    /\ fullLinks = FALSE
    /\ defaultUser = None
    /\ listing = NoAccount
    /\ repoIndex = <<>>
    /\ issues = <<>>
    /\ xreqs = 0

\* One call of extract_issues_from_message; it is applied to the message
\* a second time to compare the results.
Extract ==
    \E run \in {ExtractRun(content, fullLinks, defaultUser, listing, cache)} :
        /\ xpc \in {"input", "done"}
        /\ cache' = run.cache
        /\ xreqs' = run.reqs
        /\ repoIndex' = run.repos
        /\ issues' = run.issues
        /\ xpc' = IF run.raised THEN "raised"
                  ELSE IF xpc = "input" THEN "done" ELSE "again"
        /\ UNCHANGED <<content, fullLinks, defaultUser, listing>>
        /\ ExtractFrame

(***************************************************************************)
(* PART 3.  The automatic issue links: on_message_automatic_issue_link,    *)
(* on_message_edit_automatic_issue_link, on_message_delete, and the        *)
(* autolink_cache they share.  A listener runs from the event to its last  *)
(* statement in one step; the listeners that give way at fetch_issues      *)
(* follow the clicks.                                                      *)
(***************************************************************************)

\* The ids of the messages written in the channel.
Units == {"m1", "m2"}

\* The responses of the bot, numbered in the order they are sent.
Handles == 1..Cardinality(Units)

Ref(num) == ShortTok("ab", "cd", num)
Link(type, num) == UrlTok("ab", "cd", type, num, <<>>, "", "")
Seven == <<Ref("1"), Ref("2"), Ref("3"), Ref("4"), Ref("5"), Ref("6"), Ref("7")>>

\* The contents the users give their messages.
Messages ==
    {<<WordTok>>,
     <<Ref("1")>>,
     <<Link("issues", "1")>>,
     <<Ref("1"), Ref("2")>>,
     <<Ref("9")>>,
     <<Ref("1"), Ref("9")>>,
     <<Link("issues", "1"), Link("pull", "2")>>,
     Seven,
     Seven \o <<WordTok>>,
     <<ShortTok("", "cd", "1")>> \o Tail(Seven)}

\* A message not written yet.
NoUnit == [state |-> "new", content |-> <<>>]

\* An entry of autolink_cache: (sent_msg, issues); present is FALSE for
\* an id whose lookup raises KeyError.
NoRecord == [present |-> FALSE, sent_msg |-> 0, issues |-> <<>>]

\* Mutant: nothing is stored.
RecordNone(sent_msg, refs) == NoRecord

Record(sent_msg, refs) == [present |-> TRUE, sent_msg |-> sent_msg, issues |-> refs]

\* The users: the author of a message is the user_id of the expand button
\* of its response.
Users == {"42", "99"}
Author(u) == IF u = "m1" THEN "42" ELSE "99"

\* What a response shows: its embed, the items of the embed and the
\* custom_id of its expand button (NoButton for none).  sent is the button
\* of the Message object that channel.send returned, which autolink_cache
\* keeps; `of` is history, the references of the message when the listeners
\* last made the content.
\* EXPAND_ISSUE_CUSTOM_ID_FORMAT, field by field.
CustomId(user_id, state, org, repo, num) ==
    [user_id |-> user_id, current_state |-> state, org |-> org, repo |-> repo,
     number |-> num]

\* The components hold no expand button.
NoButton == CustomId(None, 0, None, None, None)

NoShown ==
    [embed |-> None, links |-> <<>>, button |-> NoButton, sent |-> NoButton, of |-> <<>>]

\* IssueState(organisation, repository, number, ..., raw_json)
IssueState(org, repo, num, raw_json) ==
    [organisation |-> org, repository |-> repo, number |-> num, raw_json |-> raw_json]

\* fetch_issues returns an IssueState: GitHub has the item.  It has the
\* issues and pulls of ab/cd but number 9.
Resolves(issue) ==
    issue.organisation = "ab" /\ issue.repository = "cd" /\ issue.number # "9"

\* The references the loop calls fetch_issues for.
Fetched(refs) == SelectSeq(refs, LAMBDA i : i.organisation # None)

\* What fetch_issues returns for a reference GitHub has.
FetchIssues(i) == IssueState(i.organisation, i.repository, i.number, "json")

\* links: the IssueStates the loop collects.
Links(refs) ==
    [n \in DOMAIN SelectSeq(Fetched(refs), Resolves) |->
        FetchIssues(SelectSeq(Fetched(refs), Resolves)[n])]

\* total_pre_expanded
TotalPreExpanded(refs) ==
    Len(SelectSeq(Fetched(refs), LAMBDA i : Resolves(i) /\ i.should_be_expanded))

\* format_embed: the kind of embed and issue_count.
FormatEmbed(results, expand_one_issue) ==
    IF expand_one_issue /\ Len(results) = 1 /\ results[1].raw_json # None
    THEN [embed |-> "expanded", issue_count |-> 1]
    ELSE [embed |-> "list", issue_count |-> Len(results)]

\* get_expand_button: the custom_id of the button, NoButton for None.  The
\* label is "Show less" for state 1 and "Show more" for state 0.
GetExpandButton(results, is_expanded, user_id) ==
    IF Len(results) # 1 THEN NoButton
    ELSE CustomId(user_id, IF is_expanded THEN 1 ELSE 0, results[1].organisation,
                  results[1].repository, results[1].number)

\* Lines 987-993: expand_one_issue of a new message.  A variant that
\* looks for a reference asking for expansion anywhere precedes it.
ExpandOneAny(refs, links, feature) ==
    IF Len(links) = 1 /\ \E i \in DOMAIN refs : refs[i].should_be_expanded
    THEN TRUE ELSE feature

ExpandOne(refs, links, feature) ==
    IF Len(links) = 1 /\ refs[1].should_be_expanded THEN TRUE ELSE feature

\* Lines 995-1007: the response to a new message.
Response(refs, links, expand_one_issue, button) ==
    [embed |-> FormatEmbed(links, expand_one_issue).embed,
     links |-> links,
     button |-> IF expand_one_issue THEN button ELSE NoButton,
     sent |-> IF expand_one_issue THEN button ELSE NoButton,
     of |-> refs]

\* Lines 952-961: the response to more than MAXIMUM_ISSUES references.
TooMany(refs) ==
    [embed |-> "too many", links |-> <<>>, button |-> NoButton, sent |-> NoButton,
     of |-> refs]

\* on_message_automatic_issue_link from line 945 on: how it ends, the
\* references it called fetch_issues for, and the response it sends
\* (NoShown for none).  links is what the loop collects.
Linked(refs, links, feature, user_id) ==
    IF refs = <<>>
    THEN [outcome |-> "no issues", fetched |-> <<>>, send |-> NoShown]
    ELSE IF Len(refs) > MAXIMUM_ISSUES
    THEN [outcome |-> "too many", fetched |-> <<>>, send |-> TooMany(refs)]
    ELSE IF TotalPreExpanded(refs) > 1
    THEN [outcome |-> "pre-expanded", fetched |-> Fetched(refs), send |-> NoShown]
    ELSE IF links = <<>>
    THEN [outcome |-> "no links", fetched |-> Fetched(refs), send |-> NoShown]
    ELSE [outcome |-> "sent", fetched |-> Fetched(refs),
          send |-> Response(refs, links, ExpandOne(refs, links, feature),
                            GetExpandButton(links,
                                ExpandOne(refs, links, feature)
                                /\ FormatEmbed(links, ExpandOne(refs, links, feature)).issue_count = 1,
                                user_id))]

\* The number of the response sent next.
NextHandle == 1 + Cardinality({h \in Handles : shown[h] # NoShown})

NoEvent == [kind |-> None, unit |-> None, outcome |-> None, extracted |-> <<>>,
            fetched |-> <<>>, reqs |-> 0, before |-> NoRecord]

\* A listener that waits for fetch_issues holds the references it
\* extracted and, in on_message_edit_automatic_issue_link, the entry it
\* read at line 1020.  No listener waits:
NoListener == [kind |-> None, issues |-> <<>>, rec |-> NoRecord]

\* No message has been written.
InitDisplay ==
    /\ units = [u \in Units |-> NoUnit]
    /\ autolink_cache = [u \in Units |-> NoRecord]
    /\ shown = [h \in Handles |-> NoShown]
    /\ ev = NoEvent
    /\ events = 0
    /\ suspended = [u \in Units |-> NoListener]

\* on_message_automatic_issue_link for a message of a guild with issue
\* linking enabled, written where the bot may send.
OnMessage(u, text) ==
    /\ events < MaxEvents
    /\ units[u].state = "new"
    /\ \E run \in {ExtractRun(text, fullLinks, defaultUser, listing, cache)} :
       \E out \in {IF run.raised
                   THEN [outcome |-> "raised", fetched |-> <<>>, send |-> NoShown]
                   ELSE Linked(run.issues, Links(run.issues), expandFeature, Author(u))} :
           /\ units' = [units EXCEPT ![u] = [state |-> "posted", content |-> text]]
           /\ cache' = run.cache
           /\ IF out.send = NoShown
              THEN UNCHANGED <<shown, autolink_cache>>
              ELSE /\ shown' = [shown EXCEPT ![NextHandle] = out.send]
                   /\ autolink_cache' = [autolink_cache EXCEPT
                                            ![u] = Record(NextHandle, run.issues)]
           /\ ev' = [kind |-> "message", unit |-> u, outcome |-> out.outcome,
                     extracted |-> run.issues, fetched |-> out.fetched,
                     reqs |-> run.reqs, before |-> autolink_cache[u]]
    /\ events' = events + 1
    /\ UNCHANGED suspended
    /\ DisplayFrame

\* Mutant: the entry is dropped when the references are gone.
ClearedForgotten(rec) == NoRecord

\* Line 1041: the entry kept for a message edited to hold no reference.
Cleared(rec) == Record(rec.sent_msg, <<>>)

\* Lines 1064-1066: the entry after an edit none of whose references
\* resolves: the listener returns and leaves it.
NoLinks(rec) == rec

\* Mutant: the entry is not updated once the response is edited.
UpdatedKept(rec, after) == rec

\* Line 1093: the entry once the response is edited.
Updated(rec, after) == Record(rec.sent_msg, after)

\* Mutant: the entry is updated though the response is not.
DeletedUpdated(rec, after) == Record(rec.sent_msg, after)

\* Lines 1088-1090: the entry when sent_msg.edit raises HTTPException.
Deleted(rec, after) == NoRecord

\* Line 1073: the expand button among rows_from_message(sent_msg).  sent_msg
\* is the object that channel.send returned: stale, it has the button the
\* response was sent with; otherwise the button the response has now.
Rows(old, stale) == IF stale THEN old.sent ELSE old.button

\* Lines 1070-1082: is_expanded, read off the expand button of the
\* rows when the guild has the feature.
IsExpanded(button, feature) ==
    feature /\ button # NoButton /\ button.current_state = 1

\* Lines 1068-1087: the response as edited: the expand button is replaced
\* when the guild has the feature and the response had one.
Edited(old, button, after, links, feature, user_id) ==
    [embed |-> FormatEmbed(links, IsExpanded(button, feature)).embed,
     links |-> links,
     button |-> IF feature /\ button # NoButton
                THEN GetExpandButton(links, IsExpanded(button, feature), user_id)
                ELSE button,
     sent |-> old.sent,
     of |-> after]

\* Line 1030: after_issues[:MAXIMUM_ISSUES]
Truncated(refs) ==
    SubSeq(refs, 1, IF Len(refs) > MAXIMUM_ISSUES THEN MAXIMUM_ISSUES ELSE Len(refs))

\* on_message_edit_automatic_issue_link from line 1032 on: how it ends,
\* the references it called fetch_issues for, the entry it leaves and what
\* the response shows then.  links is what the loop collects; edit is the
\* response as sent_msg.edit leaves it; fails: sent_msg.edit raises
\* HTTPException.
Reconciled(rec, old, after, links, edit, fails) ==
    IF rec.issues = after
    THEN [outcome |-> "no change", fetched |-> <<>>, record |-> rec, show |-> old]
    ELSE IF after = <<>>
    THEN [outcome |-> "clear", fetched |-> <<>>, record |-> Cleared(rec), show |-> old]
    ELSE IF links = <<>>
    THEN [outcome |-> "no links", fetched |-> Fetched(after), record |-> NoLinks(rec),
          show |-> old]
    ELSE IF fails
    THEN [outcome |-> "edit failed", fetched |-> Fetched(after),
          record |-> Deleted(rec, after), show |-> old]
    ELSE [outcome |-> "edited", fetched |-> Fetched(after),
          record |-> Updated(rec, after), show |-> edit]

\* on_message_edit_automatic_issue_link for a message whose content the
\* edit changed and whose id the cache holds.  stale is told apart where
\* the two readings of sent_msg differ.
OnMessageEdit(u, text, fails, stale) ==
    /\ events < MaxEvents
    /\ units[u].state = "posted"
    /\ units[u].content # text
    /\ \E rec \in {r \in {autolink_cache[u]} : r.present} :
       /\ stale => shown[rec.sent_msg].sent # shown[rec.sent_msg].button
       /\ \E run \in {ExtractRun(text, fullLinks, defaultUser, listing, cache)} :
          \E out \in {IF run.raised
                   THEN [outcome |-> "raised", fetched |-> <<>>, record |-> rec,
                         show |-> shown[rec.sent_msg]]
                   ELSE Reconciled(rec, shown[rec.sent_msg], Truncated(run.issues),
                                   Links(Truncated(run.issues)),
                                   Edited(shown[rec.sent_msg],
                                          Rows(shown[rec.sent_msg], stale),
                                          Truncated(run.issues),
                                          Links(Truncated(run.issues)),
                                          expandFeature, Author(u)),
                                   fails)} :
           /\ cache' = run.cache
           /\ autolink_cache' = [autolink_cache EXCEPT ![u] = out.record]
           /\ shown' = [shown EXCEPT ![rec.sent_msg] = out.show]
           /\ ev' = [kind |-> "edit", unit |-> u, outcome |-> out.outcome,
                     extracted |-> run.issues, fetched |-> out.fetched,
                     reqs |-> run.reqs, before |-> rec]
    /\ units' = [units EXCEPT ![u].content = text]
    /\ events' = events + 1
    /\ UNCHANGED suspended
    /\ DisplayFrame

\* on_message_edit_automatic_issue_link for a message whose id the cache
\* does not hold: lines 1021-1024, the KeyError ends it.
OnMessageEditUnknown(u, text) ==
    /\ events < MaxEvents
    /\ units[u].state \in {"posted", "deleted"}
    /\ units[u].content # text
    /\ ~autolink_cache[u].present
    /\ units' = IF units[u].state = "posted" THEN [units EXCEPT ![u].content = text]
                 ELSE units
    /\ ev' = [kind |-> "edit", unit |-> u, outcome |-> "no entry",
              extracted |-> <<>>, fetched |-> <<>>, reqs |-> 0, before |-> NoRecord]
    /\ events' = events + 1
    /\ UNCHANGED <<cache, autolink_cache, shown>>
    /\ UNCHANGED suspended
    /\ DisplayFrame

\* Mutant: the deletion leaves the entry.
ForgottenKept(rec) == rec

\* Lines 1099-1102: the entry after del, KeyError passed over.
Forgotten(rec) == NoRecord

\* on_message_delete
OnMessageDelete(u) ==
    /\ events < MaxEvents
    /\ units[u].state = "posted"
    /\ units' = [units EXCEPT ![u] = [state |-> "deleted", content |-> <<>>]]
    /\ autolink_cache' = [autolink_cache EXCEPT ![u] = Forgotten(autolink_cache[u])]
    /\ ev' = [kind |-> "delete", unit |-> u, outcome |-> "deleted",
              extracted |-> <<>>, fetched |-> <<>>, reqs |-> 0,
              before |-> autolink_cache[u]]
    /\ events' = events + 1
    /\ UNCHANGED <<cache, shown>>
    /\ UNCHANGED suspended
    /\ DisplayFrame

\* Mutant: a user who is not the author swaps the response as the author
\* does.
IsDifferentAuthorNever(custom_id, author) == FALSE

\* Lines 868-874: the user who clicked is not the one of the custom_id.
IsDifferentAuthor(custom_id, author) == custom_id.user_id # author

\* Mutant: the new custom_id keeps the state.
NewCustomIdSame(custom_id, author) ==
    CustomId(author, custom_id.current_state, custom_id.org, custom_id.repo,
             custom_id.number)

\* Lines 890-896: new_custom_id
NewCustomId(custom_id, author) ==
    CustomId(author, 1 - custom_id.current_state, custom_id.org, custom_id.repo,
             custom_id.number)

\* Lines 876-883: the embed made for the issue of the custom_id.
SwappedLinks(custom_id) ==
    Links(<<FoundIssue(custom_id.org, custom_id.repo, custom_id.number, FALSE)>>)

\* swap_embed_state from line 865 on, for a custom_id that matches: how it
\* ends, the IssueStates that fetch_issues returned, the embed of the
\* ephemeral message it sends and what the response shows then.  found_issue is
\* empty when fetch_issues returns a FetchError: format_embed makes the
\* list, with the line of the error.
Swapped(old, custom_id, author, found_issue) ==
    IF IsDifferentAuthor(custom_id, author) /\ custom_id.current_state = 1
    THEN [outcome |-> "refused", fetched |-> <<>>, ephemeral |-> "cannot collapse",
          show |-> old]
    ELSE IF IsDifferentAuthor(custom_id, author)
    THEN [outcome |-> "private", fetched |-> found_issue,
          ephemeral |-> FormatEmbed(found_issue, custom_id.current_state = 0).embed,
          show |-> old]
    ELSE [outcome |-> "swapped", fetched |-> found_issue,
          ephemeral |-> None,
          show |-> [old EXCEPT
                       !.embed = FormatEmbed(found_issue, custom_id.current_state = 0).embed,
                       !.links = found_issue,
                       !.button = NewCustomId(custom_id, author)]]

\* swap_embed_state: a user clicks the expand button of a response.  gone:
\* GitHub has the item no more, or answers with the body of another error.
SwapEmbedState(h, author, gone) ==
    /\ events < MaxEvents
    /\ shown[h].button # NoButton
    /\ gone => ~(IsDifferentAuthor(shown[h].button, author)
                 /\ shown[h].button.current_state = 1)
    /\ \E out \in {Swapped(shown[h], shown[h].button, author,
                           IF gone THEN <<>> ELSE SwappedLinks(shown[h].button))} :
           /\ shown' = [shown EXCEPT ![h] = out.show]
           /\ ev' = [kind |-> "click", unit |-> None, outcome |-> out.outcome,
                     extracted |-> <<>>, fetched |-> out.fetched, reqs |-> 0,
                     before |-> NoRecord, handle |-> h, author |-> author,
                     custom_id |-> shown[h].button, ephemeral |-> out.ephemeral,
                     gone |-> gone]
    /\ events' = events + 1
    /\ UNCHANGED <<cache, units, autolink_cache>>
    /\ UNCHANGED suspended
    /\ DisplayFrame

\* The listeners step by step: `await self.fetch_issues(...)` gives way to
\* the other listeners, on_message_delete among them.
\*
\* on_message_automatic_issue_link up to the first fetch_issues of the
\* loop of lines 964-978.
OnMessageFetching(u, text) ==
    /\ events < MaxEvents
    /\ units[u].state = "new"
    /\ suspended[u] = NoListener
    /\ \E run \in {ExtractRun(text, fullLinks, defaultUser, listing, cache)} :
           /\ ~run.raised
           /\ Len(run.issues) <= MAXIMUM_ISSUES
           /\ Fetched(run.issues) # <<>>
           /\ cache' = run.cache
           /\ suspended' = [suspended EXCEPT
                               ![u] = [kind |-> "message", issues |-> run.issues,
                                       rec |-> NoRecord]]
           /\ ev' = [kind |-> "message", unit |-> u, outcome |-> "fetching",
                     extracted |-> run.issues, fetched |-> <<>>,
                     reqs |-> run.reqs, before |-> autolink_cache[u]]
    /\ units' = [units EXCEPT ![u] = [state |-> "posted", content |-> text]]
    /\ events' = events + 1
    /\ UNCHANGED <<autolink_cache, shown>>
    /\ DisplayFrame

\* on_message_automatic_issue_link from the last fetch_issues on: lines
\* 980-1008.
OnMessageFetched(u) ==
    /\ suspended[u].kind = "message"
    /\ \E out \in {Linked(suspended[u].issues, Links(suspended[u].issues),
                          expandFeature, Author(u))} :
           /\ IF out.send = NoShown
              THEN UNCHANGED <<shown, autolink_cache>>
              ELSE /\ shown' = [shown EXCEPT ![NextHandle] = out.send]
                   /\ autolink_cache' = [autolink_cache EXCEPT
                                            ![u] = Record(NextHandle, suspended[u].issues)]
           /\ ev' = [kind |-> "message", unit |-> u, outcome |-> out.outcome,
                     extracted |-> suspended[u].issues, fetched |-> out.fetched,
                     reqs |-> 0, before |-> autolink_cache[u]]
    /\ suspended' = [suspended EXCEPT ![u] = NoListener]
    /\ UNCHANGED <<cache, units, events>>
    /\ DisplayFrame

\* on_message_edit_automatic_issue_link up to the first fetch_issues of the
\* loop of lines 1049-1062.
OnMessageEditFetching(u, text) ==
    /\ events < MaxEvents
    /\ units[u].state = "posted"
    /\ units[u].content # text
    /\ suspended[u] = NoListener
    /\ \E rec \in {r \in {autolink_cache[u]} : r.present} :
       \E run \in {ExtractRun(text, fullLinks, defaultUser, listing, cache)} :
           /\ ~run.raised
           /\ rec.issues # Truncated(run.issues)
           /\ Fetched(Truncated(run.issues)) # <<>>
           /\ cache' = run.cache
           /\ suspended' = [suspended EXCEPT
                               ![u] = [kind |-> "edit",
                                       issues |-> Truncated(run.issues), rec |-> rec]]
           /\ ev' = [kind |-> "edit", unit |-> u, outcome |-> "fetching",
                     extracted |-> run.issues, fetched |-> <<>>,
                     reqs |-> run.reqs, before |-> rec]
    /\ units' = [units EXCEPT ![u].content = text]
    /\ events' = events + 1
    /\ UNCHANGED <<autolink_cache, shown>>
    /\ DisplayFrame

\* on_message_edit_automatic_issue_link from the last fetch_issues on:
\* lines 1064-1093.  Line 1093 stores the entry whether or not the cache
\* holds the id still; lines 1064-1066 store nothing; the del of line 1089
\* leaves no entry.
OnMessageEditFetched(u, fails, stale) ==
    /\ suspended[u].kind = "edit"
    /\ stale => shown[suspended[u].rec.sent_msg].sent
                    # shown[suspended[u].rec.sent_msg].button
    /\ \E out \in {Reconciled(suspended[u].rec, shown[suspended[u].rec.sent_msg],
                              suspended[u].issues, Links(suspended[u].issues),
                              Edited(shown[suspended[u].rec.sent_msg],
                                     Rows(shown[suspended[u].rec.sent_msg], stale),
                                     suspended[u].issues, Links(suspended[u].issues),
                                     expandFeature, Author(u)),
                              fails)} :
           /\ autolink_cache' =
                  IF out.outcome = "edited"
                  THEN [autolink_cache EXCEPT ![u] = out.record]
                  ELSE IF out.outcome = "edit failed"
                  THEN [autolink_cache EXCEPT ![u] = NoRecord]
                  ELSE autolink_cache
           /\ shown' = [shown EXCEPT ![suspended[u].rec.sent_msg] = out.show]
           /\ ev' = [kind |-> "edit", unit |-> u, outcome |-> out.outcome,
                     extracted |-> suspended[u].issues, fetched |-> out.fetched,
                     reqs |-> 0, before |-> suspended[u].rec]
    /\ suspended' = [suspended EXCEPT ![u] = NoListener]
    /\ UNCHANGED <<cache, units, events>>
    /\ DisplayFrame

\* A request of fetch_data raises (lines 239-240: connection error,
\* timeout, a body that is no json) while a listener waits for
\* fetch_issues: neither fetch_data nor fetch_issues nor the loop catches,
\* and the exception ends the listener.
FetchIssuesRaises(u) ==
    /\ suspended[u] # NoListener
    /\ suspended' = [suspended EXCEPT ![u] = NoListener]
    /\ ev' = [kind |-> suspended[u].kind, unit |-> u, outcome |-> "raised",
              extracted |-> suspended[u].issues, fetched |-> <<>>,
              reqs |-> 0, before |-> suspended[u].rec]
    /\ UNCHANGED <<cache, units, autolink_cache, shown, events>>
    /\ DisplayFrame

(***************************************************************************)
(* PART 4.  The custom_id of the expand button as a string:                *)
(* EXPAND_ISSUE_CUSTOM_ID_FORMAT and EXPAND_ISSUE_CUSTOM_ID_REGEX.         *)
(***************************************************************************)

EXPAND_ISSUE_CUSTOM_ID_PREFIX == "gh:issue-expand-v1:"

\* The character classes of the regex: [0-9], [a-zA-Z0-9], [a-zA-Z0-9\-]
\* and [\w\-\.] over ASCII.
Digit == {"0", "1", "2", "3", "4", "5", "6", "7", "8", "9"}
Letter ==
    {"a", "b", "c", "d", "e", "f", "g", "h", "i", "j", "k", "l", "m", "n", "o",
     "p", "q", "r", "s", "t", "u", "v", "w", "x", "y", "z",
     "A", "B", "C", "D", "E", "F", "G", "H", "I", "J", "K", "L", "M", "N", "O",
     "P", "Q", "R", "S", "T", "U", "V", "W", "X", "Y", "Z"}
OrgChar == Letter \cup Digit \cup {"-"}
RepoChar == Letter \cup Digit \cup {"_", "-", "."}

\* The characters of a string.
Chars(str) == {SubSeq(str, i, i) : i \in 1..Len(str)}

\* The first place of the character at or after from, 0 for none.
RECURSIVE Find(_, _, _)
Find(str, ch, from) ==
    IF from > Len(str) THEN 0
    ELSE IF SubSeq(str, from, from) = ch THEN from
    ELSE Find(str, ch, from + 1)

\* str.startswith(prefix)
StartsWith(str, prefix) ==
    Len(str) >= Len(prefix) /\ SubSeq(str, 1, Len(prefix)) = prefix

\* EXPAND_ISSUE_CUSTOM_ID_FORMAT.format(user_id=, state=, org=, repo=, num=)
Format(c) ==
    EXPAND_ISSUE_CUSTOM_ID_PREFIX \o c.user_id \o ":"
        \o (IF c.current_state = 1 THEN "1" ELSE "0") \o ":"
        \o c.org \o "/" \o c.repo \o "#" \o c.number

\* The groups of EXPAND_ISSUE_CUSTOM_ID_REGEX are what the string holds
\* between the separators: no class of a group has the separator that
\* ends it.  The string is cut behind the prefix at the first ":", the
\* state character, the first "/" and the first "#" after it.
Cut(str, colon, slash, hash) ==
    [user_id |-> SubSeq(str, 1, colon - 1),
     current_state |-> SubSeq(str, colon + 1, colon + 1),
     sep |-> SubSeq(str, colon + 2, colon + 2),
     org |-> SubSeq(str, colon + 3, slash - 1),
     repo |-> SubSeq(str, slash + 1, hash - 1),
     number |-> SubSeq(str, hash + 1, Len(str)),
     cut |-> colon > 0 /\ slash > 0 /\ hash > 0]

Groups(str) ==
    Cut(str, Find(str, ":", 1), Find(str, "/", Find(str, ":", 1) + 3),
        Find(str, "#", Find(str, "/", Find(str, ":", 1) + 3) + 1))

\* The groups are of the classes and lengths of the regex:
\* (?P<user_id>[0-9]+):(?P<current_state>0|1):
\* (?P<org>[a-zA-Z0-9][a-zA-Z0-9\-]{1,39})\/(?P<repo>[\w\-\.]{1,100})#(?P<number>[0-9]+)
InClasses(g) ==
    /\ g.cut
    /\ Len(g.user_id) >= 1 /\ Chars(g.user_id) \subseteq Digit
    /\ g.current_state \in {"0", "1"}
    /\ g.sep = ":"
    /\ Len(g.org) >= 2 /\ Len(g.org) <= 40
    /\ SubSeq(g.org, 1, 1) \in Letter \cup Digit
    /\ Chars(g.org) \subseteq OrgChar
    /\ Len(g.repo) >= 1 /\ Len(g.repo) <= 100 /\ Chars(g.repo) \subseteq RepoChar
    /\ Len(g.number) >= 1 /\ Chars(g.number) \subseteq Digit

\* EXPAND_ISSUE_CUSTOM_ID_REGEX.fullmatch(custom_id): the groups, NoButton
\* for no match.
FullMatch(str) ==
    IF StartsWith(str, EXPAND_ISSUE_CUSTOM_ID_PREFIX)
       /\ InClasses(Groups(SubSeq(str, Len(EXPAND_ISSUE_CUSTOM_ID_PREFIX) + 1, Len(str))))
    THEN [f \in DOMAIN NoButton |->
             Groups(SubSeq(str, Len(EXPAND_ISSUE_CUSTOM_ID_PREFIX) + 1, Len(str)))[f]]
    ELSE NoButton

\* The buttons get_expand_button is asked for: the author of the message,
\* the state, and the item as fetch_issues returned it.  The organisation
\* of an item is the one written in the message or the default user of
\* the guild, a GitHub account name.
Buttons ==
    {CustomId(user_id, state, org, repo, num) :
        user_id \in {"42", "7"}, state \in {0, 1}, org \in {"ab", "a", "a-b"},
        repo \in {"cd", "c.d"}, num \in {"1", "12"}}

\* The custom_ids of other buttons on which a user may click.
OtherIds ==
    {"gh:issue-expand-v1:42:2:ab/cd#1", "gh:issue-expand-v1:42:1:ab/cd",
     "gh:issue-expand-v1:x:1:ab/cd#1", "gh:issue-expand-v1:42:1:ab/cd#1#2",
     "gh:issue-expand-v2:42:1:ab/cd#1", "delete:42"}

InitToken ==
    \/ /\ tpc = "asked" /\ made \in Buttons /\ custom = "" /\ matched = NoButton
    \/ /\ tpc = "shown" /\ made = NoButton /\ custom \in OtherIds /\ matched = NoButton

\* get_expand_button for one item: the custom_id of the button.
GetExpandButtonId ==
    /\ tpc = "asked"
    /\ tpc' = "shown"
    /\ custom' = Format(made)
    /\ UNCHANGED <<made, matched, fetchVars, extractVars, displayVars, resolveVars>>

\* swap_embed_state, lines 856-863: a custom_id of another prefix is not
\* for this listener; one that does not match the regex is answered with
\* an ephemeral error and ValueError is raised; otherwise the listener goes
\* on with the groups.
OnButtonClick ==
    /\ tpc = "shown"
    /\ tpc' = IF ~StartsWith(custom, EXPAND_ISSUE_CUSTOM_ID_PREFIX) THEN "ignored"
              ELSE IF FullMatch(custom) = NoButton THEN "invalid"
              ELSE "matched"
    /\ matched' = FullMatch(custom)
    /\ UNCHANGED <<made, custom, fetchVars, extractVars, displayVars, resolveVars>>

(***************************************************************************)
(* Part 5.  fetch_issues: what it makes of the answers of GitHub.          *)
(***************************************************************************)
\* json_data["pull_request"]: html_url and merged_at.
PullData(html_url, merged_at) == [html_url |-> html_url, merged_at |-> merged_at]

\* json_data has no "pull_request" key: json_data.get("pull_request") is
\* None.
NoPull == PullData(None, None)

\* The json of the issue endpoint as fetch_data returns it.  message: the
\* key "message" is there, as in the body of an error; title is None when
\* the key is missing, and so is state_reason.
Json(message, pull_request, state, draft, state_reason, title) ==
    [message |-> message, pull_request |-> pull_request, state |-> state,
     draft |-> draft, state_reason |-> state_reason, title |-> title]

\* The body of an error.
NotFound == Json(TRUE, NoPull, None, FALSE, None, None)

\* json_data["repository"]["discussion"] of the gql answer: title, answer,
\* url.  It has none of the keys of the issue endpoint.
Discussion(answered, title) ==
    [message |-> FALSE, pull_request |-> NoPull, state |-> None, draft |-> FALSE,
     state_reason |-> None, title |-> title, answer |-> answered]

\* raw_json of an item found through gql.
NoJson == Json(FALSE, NoPull, None, FALSE, None, None)

\* FetchError(status_code, message)
FetchError(status_code, message) ==
    [error |-> TRUE, status_code |-> status_code, message |-> message]

\* Lines 596-604: the emoji of a pull.  A variant that looks at the state
\* first precedes it.
PullEmojiStateFirst(pull_data, json_data) ==
    IF json_data.state = "closed" THEN "pull_request_closed"
    ELSE IF pull_data.merged_at # None THEN "pull_request_merged"
    ELSE IF json_data.draft THEN "pull_request_draft"
    ELSE "pull_request_open"

PullEmoji(pull_data, json_data) ==
    IF pull_data.merged_at # None THEN "pull_request_merged"
    ELSE IF json_data.state = "closed" THEN "pull_request_closed"
    ELSE IF json_data.draft THEN "pull_request_draft"
    ELSE "pull_request_open"

\* Lines 607-610: the emoji of a discussion.
DiscussionEmoji(json_data) ==
    IF json_data.answer THEN "discussion_answered" ELSE "issue_draft"

\* Lines 613-621: the emoji of an issue.  A variant that looks at the
\* reason first precedes it.
IssueEmojiReasonFirst(json_data) ==
    IF json_data.state_reason = "not_planned" THEN "issue_closed_unplanned"
    ELSE IF json_data.state_reason = "completed" THEN "issue_closed_completed"
    ELSE IF json_data.state = "open" THEN "issue_open"
    ELSE "issue_closed"

IssueEmoji(json_data) ==
    IF json_data.state = "open" THEN "issue_open"
    ELSE IF json_data.state_reason = "not_planned" THEN "issue_closed_unplanned"
    ELSE IF json_data.state_reason = "completed" THEN "issue_closed_completed"
    ELSE "issue_closed"

\* Lines 593-631: the IssueState made of json_data.  The url says which
\* key it was read from.  A variant that keeps the json of a discussion
\* precedes it.
ClassifiedWithJson(json_data, is_discussion) ==
    [error |-> FALSE,
     url |-> IF json_data.pull_request # NoPull THEN json_data.pull_request.html_url
             ELSE IF is_discussion THEN "url" ELSE "html_url",
     title |-> IF json_data.title = None THEN "" ELSE json_data.title,
     emoji |-> IF json_data.pull_request # NoPull
               THEN PullEmoji(json_data.pull_request, json_data)
               ELSE IF is_discussion THEN DiscussionEmoji(json_data)
               ELSE IssueEmoji(json_data),
     raw_json |-> json_data]

Classified(json_data, is_discussion) ==
    [error |-> FALSE,
     url |-> IF json_data.pull_request # NoPull THEN json_data.pull_request.html_url
             ELSE IF is_discussion THEN "url" ELSE "html_url",
     title |-> IF json_data.title = None THEN "" ELSE json_data.title,
     emoji |-> IF json_data.pull_request # NoPull
               THEN PullEmoji(json_data.pull_request, json_data)
               ELSE IF is_discussion THEN DiscussionEmoji(json_data)
               ELSE IssueEmoji(json_data),
     raw_json |-> IF is_discussion THEN NoJson ELSE json_data]

\* What the issue endpoint answers.
Pulls ==
    { Json(FALSE, PullData("pull/html_url", merged_at), state, draft, None, title) :
        merged_at \in {None, "2024-01-01"}, state \in {"open", "closed"},
        draft \in BOOLEAN, title \in {None, "Fix"} }

Issues ==
    { Json(FALSE, NoPull, state, FALSE, state_reason, title) :
        state \in {"open", "closed"},
        state_reason \in {None, "not_planned", "completed", "reopened"},
        title \in {None, "Fix"} }

\* What gql answers: it raises TransportQueryError, or has the discussion.
Raises == [raises |-> TRUE, answered |-> FALSE, title |-> None]

GqlAnswers ==
    {Raises} \cup {[raises |-> FALSE, answered |-> a, title |-> t] :
                      a \in BOOLEAN, t \in {None, "Idea"}}

\* The statuses GitHub sends the body of an error with: the item is not
\* there, the rate limit is exceeded, the item was deleted.  fetch_data
\* returns the body and not the status.
ErrorStatuses == {404, 403, 410}

\* A call of fetch_issues: the status and json of the issue endpoint (the
\* status -1 is that of RaisedResp: the request raised and fetch_data
\* with it), allow_discussions, and what gql would answer.
Upstream(status, json, allow_discussions, gql) ==
    [status |-> status, json |-> json, allow_discussions |-> allow_discussions,
     gql |-> gql]

InitResolve ==
    /\ rpc = "called"
    /\ upstream \in
         { Upstream(200, json, allow, Raises) :
             json \in Pulls \cup Issues, allow \in BOOLEAN }
         \cup { Upstream(status, NotFound, allow, gql) :
                  status \in ErrorStatuses, allow \in BOOLEAN, gql \in GqlAnswers }
         \cup { Upstream(RaisedResp.status, NoJson, allow, Raises) : allow \in BOOLEAN }
    /\ result = <<>>

\* Lines 573-587 and 593-631: what fetch_issues returns once
\* gql.execute_async has returned or raised.  A variant that does not catch
\* precedes it.
FallbackUncaught(gql) ==
    Classified(Discussion(gql.answered, gql.title), TRUE)

Fallback(gql) ==
    IF gql.raises
    THEN FetchError(-1, "Issue not found.")
    ELSE Classified(Discussion(gql.answered, gql.title), TRUE)

\* Lines 548-557 and 593-631: fetch_data has returned, or it has raised
\* and the exception leaves fetch_issues.
FetchIssuesJson ==
    /\ rpc = "called"
    /\ IF upstream.status = RaisedResp.status
       THEN /\ rpc' = "raised"
            /\ result' = result
       ELSE IF upstream.json.message
       THEN IF ~upstream.allow_discussions
            THEN /\ rpc' = "returned"
                 /\ result' = FetchError(404, "Issue not found.")
            ELSE /\ rpc' = "gql"
                 /\ result' = result
       ELSE /\ rpc' = "returned"
            /\ result' = Classified(upstream.json, FALSE)
    /\ UNCHANGED <<upstream, fetchVars, extractVars, displayVars, tokenVars>>

\* Lines 574-587 and 593-631: gql.execute_async has returned or raised.
FetchIssuesGql ==
    /\ rpc = "gql"
    /\ rpc' = "returned"
    /\ result' = Fallback(upstream.gql)
    /\ UNCHANGED <<upstream, fetchVars, extractVars, displayVars, tokenVars>>

(***************************************************************************)
(* Specifications.                                                         *)
(***************************************************************************)
vars == <<fetchVars, extractVars, displayVars, tokenVars, resolveVars>>

\* No custom_id is made or read, fetch_issues is not called.
IdlePure ==
    /\ tpc = "none" /\ made = NoButton /\ custom = "" /\ matched = NoButton
    /\ rpc = "none" /\ upstream = <<>> /\ result = <<>>

\* No message is handled; the guild has no feature.
IdleDisplay == InitDisplay /\ expandFeature = FALSE /\ IdlePure

\* Concurrent fetch_data calls.
Init == InitFetch /\ IdleExtract /\ IdleDisplay

Next == NextFetch

Spec == Init /\ [][Next]_vars

\* The event loop runs every task that can go on: one woken by the
\* release of its lock, one whose lookup or store in the cache is done.
\* Every request sent is answered or raises (the session has a timeout).
Fairness ==
    \A p \in Procs :
        /\ WF_vars(Acquire(p))
        /\ WF_vars(CacheGet(p))
        /\ WF_vars(CacheSet(p))
        /\ WF_vars(Fail(p) \/ \E r \in Responses : Respond(p, r))

SpecLive == Init /\ [][Next]_vars /\ Fairness

\* One call of extract_issues_from_message on every text.
InitX == InitExtract /\ InitFetch /\ IdleDisplay

NextX == Extract

SpecExtract == InitX /\ [][NextX]_vars

\* The messages of one guild, written, edited and deleted.
InitD ==
    /\ InitFetch
    /\ xpc = "none" /\ content = <<>> /\ repoIndex = <<>> /\ issues = <<>> /\ xreqs = 0
    /\ fullLinks \in BOOLEAN
    /\ defaultUser \in DefaultUsers
    /\ listing \in {OrgAccount("b1"), NoAccount}
    /\ defaultUser = None => listing = NoAccount
    /\ expandFeature \in BOOLEAN
    /\ InitDisplay
    /\ IdlePure

NextD ==
    \/ \E u \in Units, text \in Messages : OnMessage(u, text)
    \/ \E u \in Units, text \in Messages, fails, stale \in BOOLEAN :
           OnMessageEdit(u, text, fails, stale)
    \/ \E u \in Units, text \in Messages : OnMessageEditUnknown(u, text)
    \/ \E u \in Units : OnMessageDelete(u)

SpecDisplay == InitD /\ [][NextD]_vars

\* The contents the author gives the message m1.
UnitMessages ==
    {<<WordTok>>,
     <<Ref("1")>>,
     <<Ref("2")>>,
     <<Link("issues", "1")>>,
     <<Link("pull", "2")>>,
     <<Ref("1"), Ref("2")>>,
     <<Ref("9")>>,
     <<Ref("9"), WordTok>>,
     <<Link("issues", "1"), Link("issues", "9")>>,
     <<Link("issues", "9"), Ref("1")>>,
     <<Link("issues", "1"), Link("pull", "2")>>,
     Seven,
     Seven \o <<WordTok>>}

\* One message of a guild without default user, written and edited by its
\* author; the users click the expand button of the response.
InitU ==
    /\ InitFetch
    /\ xpc = "none" /\ content = <<>> /\ repoIndex = <<>> /\ issues = <<>> /\ xreqs = 0
    /\ fullLinks \in BOOLEAN
    /\ defaultUser = None
    /\ listing = NoAccount
    /\ expandFeature \in BOOLEAN
    /\ InitDisplay
    /\ IdlePure

NextU ==
    \/ \E text \in UnitMessages : OnMessage("m1", text)
    \/ \E text \in UnitMessages, fails, stale \in BOOLEAN :
           OnMessageEdit("m1", text, fails, stale)
    \/ \E text \in UnitMessages : OnMessageEditUnknown("m1", text)
    \/ \E h \in Handles, author \in Users, gone \in BOOLEAN :
           SwapEmbedState(h, author, gone)

SpecUnit == InitU /\ [][NextU]_vars

\* The message m1 of SpecUnit, its listeners waiting for fetch_issues
\* while it is edited and deleted.
NextL ==
    \/ \E text \in UnitMessages : OnMessage("m1", text)
    \/ \E text \in UnitMessages : OnMessageFetching("m1", text)
    \/ OnMessageFetched("m1")
    \/ \E text \in UnitMessages : OnMessageEditFetching("m1", text)
    \/ \E fails, stale \in BOOLEAN : OnMessageEditFetched("m1", fails, stale)
    \/ FetchIssuesRaises("m1")
    \/ \E text \in UnitMessages : OnMessageEditUnknown("m1", text)
    \/ OnMessageDelete("m1")

SpecListeners == InitU /\ [][NextL]_vars

\* The custom_ids made for the buttons, and clicks on them and on others.
InitT ==
    /\ InitFetch /\ IdleExtract /\ InitDisplay /\ expandFeature = FALSE
    /\ InitToken
    /\ rpc = "none" /\ upstream = <<>> /\ result = <<>>

NextT == GetExpandButtonId \/ OnButtonClick

SpecToken == InitT /\ [][NextT]_vars

\* Calls of fetch_issues.
InitR ==
    /\ InitFetch /\ IdleExtract /\ InitDisplay /\ expandFeature = FALSE
    /\ tpc = "none" /\ made = NoButton /\ custom = "" /\ matched = NoButton
    /\ InitResolve

NextR == FetchIssuesJson \/ FetchIssuesGql

SpecResolve == InitR /\ [][NextR]_vars

(***************************************************************************)
(* Properties of the request cache.                                        *)
(***************************************************************************)

\* C1: at most one task per cache key is between acquiring the key's lock
\* and leaving it (lookup, upstream request in flight, cache update); any
\* other caller of the key is queued.
C1_OneRequestPerKey ==
    \A k \in Keys : Cardinality({p \in Procs : InLock(p) /\ ckey[p] = k}) <= 1

C1_Witness ==
    \E p, q \in Procs :
        /\ p # q /\ ckey[p] = ckey[q]
        /\ pc[p] = "request" /\ pc[q] = "wait"

\* The task holds the lock registered for the key, and holds it alone.
HoldsKeyLock(p, k) ==
    /\ InLock(p) /\ ckey[p] = k
    /\ lref[p] = locks[k]
    /\ lockObj[lref[p]].locked
    /\ \A q \in Procs \ {p} : ~(InLock(q) /\ lref[q] = lref[p])

\* C2: every step that writes the entry of a key is taken by a task at
\* request_cache.set that holds the lock of that very key.
C2_WriteUnderLock ==
    [][\A k \in Keys :
           (cache'[k] # cache[k] /\ cache'[k].present) =>
               \E p \in Procs : pc[p] = "set" /\ pc'[p] = "idle" /\ HoldsKeyLock(p, k)]_fetchVars

C2_Witness ==
    /\ last.line = 253 /\ last.resp.status = 200
    /\ cache[last.key] = Entry(last.resp.etag, last.resp.body)

\* C3: a request in flight for a key whose entry carries a validator sends
\* that validator as If-None-Match; and a call that found a validator has
\* issued exactly one request with it, and returned at line 242 (the
\* cached body) only on a 304, never at the shortcut of line 233.
C3_AlwaysRevalidates ==
    /\ \A p \in Procs :
           (pc[p] = "request" /\ cache[ckey[p]].present /\ cache[ckey[p]].etag # None)
               => hdr[p] = cache[ckey[p]].etag
    /\ (last.line # 0 /\ last.found.present /\ last.found.etag # None) =>
           /\ last.reqs = 1
           /\ last.hdr = last.found.etag
           /\ last.line # 233
           /\ last.line = 242 <=> last.resp.status = 304

C3_Witness ==
    /\ last.found.present /\ last.found.etag = "v1"
    /\ last.resp.status = 304 /\ last.ret = "b1" /\ last.hdr = "v1"

\* C4: while the history of a key is a 2xx answer with a validator followed
\* by 304s only, the stored entry is that first answer's (validator, body),
\* and the call that ended last on the key returned the first body after
\* exactly one upstream request.
C4_RoundTrip ==
    \A k \in Keys :
        hist[k] = "rt" =>
            /\ cache[k].present => cache[k] = Entry(firstResp[k].etag, firstResp[k].body)
            /\ (last.key = k /\ last.line # 0) =>
                   /\ last.ret = firstResp[k].body
                   /\ last.reqs = 1

C4_Witness ==
    \E k \in Keys :
        /\ hist[k] = "rt" /\ last.key = k
        /\ last.resp.status = 304 /\ last.ret = firstResp[k].body

\* C5: no entry holds the payload of a non-2xx response.
C5_OnlySuccessStored ==
    \A k \in Keys : cache[k].present => cache[k].body \in OkBodies

\* C6: a call that finds an entry without validator returns its body with
\* no upstream request; and a call for a repository listing that queued
\* while the key was uncached, behind a request answered without ETag, is
\* served that answer's body with no upstream request of its own.
C6_NoValidatorFastPath ==
    /\ (last.line # 0 /\ last.found.present /\ last.found.etag = None) =>
           /\ last.reqs = 0
           /\ last.ret = last.found.body
           /\ last.line = 233
    /\ ( /\ last.line # 0
         /\ IsReposListing(UrlOf(last.key))
         /\ last.waited /\ last.uncached
         /\ last.prev.status \in {200, 403, 404}
         /\ last.prev.etag = NoETag ) =>
           /\ last.reqs = 0
           /\ last.ret = last.prev.body

C6_Witness ==
    /\ IsReposListing(UrlOf(last.key))
    /\ last.waited /\ last.uncached
    /\ last.prev.status = 200 /\ last.prev.etag = NoETag
    /\ last.reqs = 0 /\ last.ret = "b0"

\* C7: the tasks that hold or wait for the lock of one key reference one
\* lock object, the one the registry maps the key to; and the registry
\* changes the lock of a key only when no task references the old one.
C7_OneLockPerKey ==
    /\ [](\A p \in Procs : Active(p) =>
             /\ locks[ckey[p]] = lref[p]
             /\ \A q \in Procs : (Active(q) /\ ckey[q] = ckey[p]) => lref[q] = lref[p])
    /\ [][\A k \in Keys :
             (locks[k] # NoLock /\ locks'[k] # locks[k]) => ~Referenced(locks[k])]_fetchVars

C7_Witness ==
    \E p, q \in Procs :
        /\ p # q /\ ckey[p] = ckey[q]
        /\ pc[p] = "get" /\ pc[q] = "wait"
        /\ lref[p] = lref[q] /\ locks[ckey[p]] = lref[p]

(***************************************************************************)
(* Properties of the extraction.                                           *)
(***************************************************************************)

\* The list `issues` before it is de-duplicated, with the places.
Occurrences == Found(Matches(StrippedContent(content), fullLinks), defaultUser, repoIndex)

\* C8: the result holds at most one reference per (organisation,
\* repository, number).
C8_OnePerTriple ==
    xpc = "done" =>
        \A i, j \in DOMAIN issues : i # j => Hash(issues[i]) # Hash(issues[j])

\* C9: the expand hint of every reference returned is true exactly when
\* one of the occurrences of its (organisation, repository, number) was a
\* full-url match.
C9_HintIsOr ==
    xpc = "done" =>
        \A i \in DOMAIN issues :
            issues[i].should_be_expanded =
                (\E n \in DOMAIN Occurrences :
                     /\ Hash(Occurrences[n].issue) = Hash(issues[i])
                     /\ Occurrences[n].issue.should_be_expanded)

\* The place in the text of the first occurrence of an identity.
FirstPlace(issue) ==
    LET places == {Occurrences[n].pos : n \in {m \in DOMAIN Occurrences :
                        Hash(Occurrences[m].issue) = Hash(issue)}}
    IN  CHOOSE x \in places : \A y \in places : x <= y

\* C10 as claimed: the result is ordered by the place of the first
\* occurrence in the text (references of one identity share their place).
C10_TextOrder ==
    xpc = "done" =>
        \A i, j \in DOMAIN issues : i < j => FirstPlace(issues[i]) <= FirstPlace(issues[j])

\* The place in the text of the first occurrence of a reference in its
\* own form (short form or full url).
FirstPlaceInForm(issue) ==
    LET places == {Occurrences[n].pos : n \in {m \in DOMAIN Occurrences :
                        Eq(Occurrences[m].issue, issue)}}
    IN  CHOOSE x \in places : \A y \in places : x <= y

\* C10 amended: the result is ordered by the scan: the short-form
\* references come first, then the full-url references, and the references
\* of one form are ordered by the place of their first occurrence.
C10_ScanOrder ==
    xpc = "done" =>
        \A i, j \in DOMAIN issues :
            i < j =>
                /\ ~(issues[i].should_be_expanded /\ ~issues[j].should_be_expanded)
                /\ (issues[i].should_be_expanded = issues[j].should_be_expanded)
                       => FirstPlaceInForm(issues[i]) < FirstPlaceInForm(issues[j])

C10_Witness ==
    /\ xpc = "done"
    /\ \E i, j \in DOMAIN issues :
           /\ i < j
           /\ ~issues[i].should_be_expanded /\ issues[j].should_be_expanded
           /\ FirstPlace(issues[j]) < FirstPlace(issues[i])
    /\ \E i, j \in DOMAIN issues :
           /\ i < j
           /\ issues[i].should_be_expanded /\ issues[j].should_be_expanded

\* The matches the regexes find in one token of the message.
TokenMatches(tok, pos) ==
    AutomaticMatches(tok, pos) \o (IF fullLinks THEN LinkMatches(tok, pos) ELSE <<>>)

\* The reference is what the loop appends for a match of the token at pos.
StemsFrom(issue, pos, repos) ==
    \E k \in DOMAIN TokenMatches(content[pos], pos) :
        IssueOf(TokenMatches(content[pos], pos)[k], defaultUser, repos) = <<issue>>

\* C11: every reference returned stems from a match that stands outside
\* the code blocks of the message; what is written only in a code block
\* is not returned.
C11_NoneFromCode ==
    xpc = "done" =>
        \A i \in DOMAIN issues :
            \E pos \in DOMAIN content :
                ~content[pos].code /\ StemsFrom(issues[i], pos, repoIndex)

C11_Witness ==
    /\ xpc = "done"
    /\ issues # <<>>
    /\ \E pos \in DOMAIN content : content[pos] = InCode(ShortTok("ab", "cd", "1"))
    /\ \A i \in DOMAIN issues : Hash(issues[i]) # <<"ab", "cd", "1">>

\* Nothing follows the number of the url (a trailing slash aside).
NothingFollows(tok) ==
    RStripSlash(tok.path) = <<>> /\ tok.query = "" /\ tok.fragment = ""

\* C12: a reference with the expand hint stems from a full url of the
\* text, full-url extraction being enabled, after whose number nothing
\* follows; a reference without the hint stems from a short-form match.
C12_NothingFollows ==
    xpc = "done" =>
        \A i \in DOMAIN issues :
            IF issues[i].should_be_expanded
            THEN /\ fullLinks
                 /\ \E pos \in DOMAIN content :
                        /\ ~content[pos].code
                        /\ content[pos].kind = "url"
                        /\ NothingFollows(content[pos])
                        /\ StemsFrom(issues[i], pos, repoIndex)
            ELSE \E pos \in DOMAIN content :
                     /\ ~content[pos].code
                     /\ \E k \in DOMAIN AutomaticMatches(content[pos], pos) :
                            IssueOf(AutomaticMatches(content[pos], pos)[k],
                                    defaultUser, repoIndex) = <<issues[i]>>

\* The message holds, outside its code blocks, a reference written
\* without organisation.
HasOrgLess ==
    \E pos \in DOMAIN content :
        /\ ~content[pos].code
        /\ \E k \in DOMAIN AutomaticMatches(content[pos], pos) :
               AutomaticMatches(content[pos], pos)[k].org = None

\* C13 as claimed: an application leaves the request cache and
\* autolink_cache as they are, and a second application to the same message in the same context returns
\* what the first returned.
C13_Pure ==
    [][xpc' # xpc =>
           /\ cache' = cache
           /\ autolink_cache' = autolink_cache
           /\ xpc = "done" => (xpc' = "again" /\ issues' = issues)]_vars

\* C13 amended: a second application in the same context returns what the
\* first returned and changes nothing; no application changes
\* autolink_cache; the first changes the request cache
\* at the listing urls only, and only when the message holds a reference
\* without organisation and the guild has a default user.
C13_PureButListing ==
    [][xpc' # xpc =>
           /\ autolink_cache' = autolink_cache
           /\ xpc = "done" => (xpc' = "again" /\ issues' = issues /\ cache' = cache)
           /\ \A k \in Keys :
                  cache'[k] # cache[k] =>
                      /\ IsReposListing(UrlOf(k))
                      /\ defaultUser # None
                      /\ HasOrgLess]_vars

C13_Witness ==
    /\ xpc = "again"
    /\ cache[CacheKey("GET", ReposUrl)].present
    /\ \E i \in DOMAIN issues : issues[i] = FoundIssue("ab", "cd", "1", FALSE)
    /\ \A pos \in DOMAIN content : content[pos].org # "ab"

\* The repository index of the default user: what GitHub lists for it.
ServedIndex ==
    IF listing[ReposUrl] \in OkBodies THEN ReposOf(listing[ReposUrl])
    ELSE IF listing[UserReposUrl] \in OkBodies THEN ReposOf(listing[UserReposUrl])
    ELSE <<>>

\* C14: every application returns; what it returns are the references of
\* the message, those written without organisation completed with the
\* default user when there is one and its index holds the repository,
\* and dropped otherwise; every reference returned has an organisation.
C14_CompletedOrDropped ==
    xpc # "input" =>
        /\ xpc # "raised"
        /\ \A i \in DOMAIN issues :
               /\ issues[i].organisation # None
               /\ \E pos \in DOMAIN content :
                      ~content[pos].code /\ StemsFrom(issues[i], pos, ServedIndex)
        /\ \A pos \in DOMAIN content :
               \A k \in DOMAIN AutomaticMatches(content[pos], pos) :
                   LET m == AutomaticMatches(content[pos], pos)[k]
                   IN  ( /\ ~content[pos].code /\ m.org = None
                         /\ defaultUser # None /\ Lower(m.repo) \in DOMAIN ServedIndex )
                           => \E i \in DOMAIN issues :
                                  Hash(issues[i]) = <<defaultUser, ServedIndex[Lower(m.repo)], m.num>>

(***************************************************************************)
(* Properties of the automatic issue links.                                *)
(***************************************************************************)

\* The listener that ran last was on_message_automatic_issue_link, for a
\* message with more than MAXIMUM_ISSUES references.
NewWithTooMany == ev.kind = "message" /\ Len(ev.extracted) > MAXIMUM_ISSUES

\* C15: a new message with more than MAXIMUM_ISSUES references is answered
\* with the too-many error, and between its arrival and the error no
\* request went to GitHub: fetch_issues was called for no reference and
\* no repository listing was requested.
C15_NoFetch ==
    NewWithTooMany =>
        /\ ev.outcome = "too many"
        /\ shown[autolink_cache[ev.unit].sent_msg].embed = "too many"
        /\ ev.fetched = <<>>
        /\ ev.reqs = 0

\* The step is a run of on_message_edit_automatic_issue_link that got as
\* far as the extraction.
EditStep == events' # events /\ ev'.kind = "edit" /\ ev'.outcome # "no entry"

\* C16: an edit that brings more than MAXIMUM_ISSUES references leaves
\* the response and the entry of autolink_cache as they were, and calls
\* fetch_issues for none of the references.
C16_ForgoTooMany ==
    [][(EditStep /\ Len(ev'.extracted) > MAXIMUM_ISSUES) =>
           /\ shown' = shown
           /\ autolink_cache' = autolink_cache
           /\ ev'.fetched = <<>>]_vars

\* C17 as claimed: the references stored with a response are those its
\* content was made from.
C17_StoredIsShown ==
    \A u \in Units :
        autolink_cache[u].present =>
            autolink_cache[u].issues = shown[autolink_cache[u].sent_msg].of

\* C17 amended: the references stored with a response are those its
\* content was made from, or none; they are none only after an edit that
\* left the message without references, which leaves the response as it
\* was.
C17_StoredIsShownOrNone ==
    /\ \A u \in Units :
           autolink_cache[u].present =>
               autolink_cache[u].issues \in {shown[autolink_cache[u].sent_msg].of, <<>>}
    /\ (ev.kind \in {"message", "edit"} /\ ev.outcome # "clear"
        /\ autolink_cache[ev.unit].present /\ autolink_cache[ev.unit].issues # ev.before.issues)
           => autolink_cache[ev.unit].issues = shown[autolink_cache[ev.unit].sent_msg].of

C17_Witness ==
    /\ ev.kind = "edit"
    /\ ev.outcome = "edited"
    /\ ev.before.issues # <<>>
    /\ autolink_cache[ev.unit].issues # ev.before.issues
    /\ autolink_cache[ev.unit].issues = shown[autolink_cache[ev.unit].sent_msg].of

\* C18: an edit that leaves no reference in a message whose entry holds
\* references empties the list of the entry and keeps the entry with its
\* response, calls fetch_issues for nothing and leaves the response as it
\* was; an edit that brings references back to such an entry edits that
\* same response and keeps it in the entry.
C18_ClearKeepsEntry ==
    [][EditStep =>
           /\ (ev'.outcome # "raised" /\ ev'.extracted = <<>> /\ ev'.before.issues # <<>>) =>
                  /\ ev'.outcome = "clear"
                  /\ autolink_cache'[ev'.unit] = Record(ev'.before.sent_msg, <<>>)
                  /\ ev'.fetched = <<>>
                  /\ shown' = shown
           /\ (ev'.outcome = "edited" /\ ev'.before.issues = <<>>) =>
                  /\ autolink_cache'[ev'.unit] =
                         Record(ev'.before.sent_msg, Truncated(ev'.extracted))
                  /\ shown'[ev'.before.sent_msg].of = Truncated(ev'.extracted)
                  /\ \A h \in Handles : h # ev'.before.sent_msg => shown'[h] = shown[h]]_vars

\* An entry emptied by an edit got references back by a later edit.
C18_Witness ==
    /\ ev.kind = "edit"
    /\ ev.outcome = "edited"
    /\ ev.before = Record(1, <<>>)
    /\ autolink_cache[ev.unit].sent_msg = 1
    /\ shown[1].of = autolink_cache[ev.unit].issues

\* The identities of the references of a list, hints left out.
Hashes(refs) == [n \in DOMAIN refs |-> Hash(refs[n])]

\* C19: an edit whose extracted references equal the stored ones, one by
\* one and hints included, changes nothing: fetch_issues is called for
\* nothing, the response is not edited and the entry stays as it was; an
\* edit whose references differ from the stored ones in a hint only is
\* not such an edit.
C19_NoChange ==
    [][(EditStep /\ ev'.outcome # "raised") =>
           /\ ev'.extracted = ev'.before.issues =>
                  /\ ev'.outcome = "no change"
                  /\ ev'.fetched = <<>>
                  /\ shown' = shown
                  /\ autolink_cache' = autolink_cache
           /\ ( /\ Hashes(ev'.extracted) = Hashes(ev'.before.issues)
                /\ ev'.extracted # ev'.before.issues ) => ev'.outcome # "no change"]_vars

\* C20: an edit whose references are some, differ from the stored ones and
\* resolve to no item empties the list of the entry and keeps the entry.
C20_NoneResolvedClears ==
    [][( /\ EditStep
         /\ ev'.outcome # "raised"
         /\ Truncated(ev'.extracted) \notin {<<>>, ev'.before.issues}
         /\ Links(Truncated(ev'.extracted)) = <<>> ) =>
              autolink_cache'[ev'.unit] = Record(ev'.before.sent_msg, <<>>)]_vars

\* The step is an edit of the message whose last edit was the step before,
\* and both edits left the same references in the message.
SameEditAgain ==
    /\ events' # events
    /\ ev.kind = "edit" /\ ev'.kind = "edit"
    /\ ev.unit = ev'.unit
    /\ ev.extracted = ev'.extracted

\* C21: the second of two edits in a row that leave the same references in
\* a message calls fetch_issues for nothing, does not edit the response and
\* leaves the entry of the message as it is, whatever the first did.
C21_Idempotent ==
    [][SameEditAgain =>
           /\ ev'.outcome \in {"no change", "no entry"}
           /\ ev'.fetched = <<>>
           /\ shown' = shown
           /\ autolink_cache' = autolink_cache]_vars

\* The step is an edit that edited a response with an expand button and
\* left one item in it.
ReplaceOfToggled ==
    /\ EditStep
    /\ ev'.outcome = "edited"
    /\ shown[ev'.before.sent_msg].button # NoButton
    /\ Len(shown'[ev'.before.sent_msg].links) = 1

\* C22: when an edit edits a response that had an expand button and shows
\* one item afterwards, the response has an expand button with the state of
\* the old one, and the item is shown expanded for state 1 and collapsed for
\* state 0.
C22_StateCarriedOver ==
    [][ReplaceOfToggled =>
           /\ shown'[ev'.before.sent_msg].button # NoButton
           /\ shown'[ev'.before.sent_msg].button.current_state =
                  shown[ev'.before.sent_msg].button.current_state
           /\ shown'[ev'.before.sent_msg].embed =
                  IF shown[ev'.before.sent_msg].button.current_state = 1
                  THEN "expanded" ELSE "list"]_vars

\* The custom_id names the item.
Names(custom_id, item) ==
    /\ custom_id.org = item.organisation
    /\ custom_id.repo = item.repository
    /\ custom_id.number = item.number

\* C23: a response has an expand button only if it shows exactly one item,
\* and the custom_id of the button names that item.
C23_ToggleOfTheOneItem ==
    \A h \in Handles :
        shown[h].button # NoButton =>
            /\ Len(shown[h].links) = 1
            /\ Names(shown[h].button, shown[h].links[1])

\* The references of the list that ask for expansion.
PreExpanded(refs) == SelectSeq(refs, LAMBDA i : i.should_be_expanded)

\* C24: a response made or edited for a message with more than one
\* reference that asks for expansion is not expanded.
C24_NoExpansionOfMany ==
    ( /\ ev.kind \in {"message", "edit"}
      /\ ev.outcome \in {"sent", "edited"}
      /\ Len(PreExpanded(ev.extracted)) > 1 )
        => shown[autolink_cache[ev.unit].sent_msg].embed # "expanded"

\* C25: the deletion of a message removes its entry, whether it has one or
\* not, and changes nothing else; an edit of the message after that calls
\* fetch_issues for nothing, requests nothing, edits no response and makes
\* no entry.
C25_Forget ==
    [][events' # events =>
           /\ ev'.kind = "delete" =>
                  /\ autolink_cache' = [autolink_cache EXCEPT ![ev'.unit] = NoRecord]
                  /\ shown' = shown
           /\ (ev'.kind = "edit" /\ units[ev'.unit].state = "deleted") =>
                  /\ ev'.fetched = <<>>
                  /\ ev'.reqs = 0
                  /\ cache' = cache
                  /\ shown' = shown
                  /\ autolink_cache' = autolink_cache
                  /\ ~autolink_cache'[ev'.unit].present]_vars

\* A message that had a response was deleted and edited after that.
C25_Witness ==
    /\ ev.kind = "edit"
    /\ units[ev.unit].state = "deleted"
    /\ \E h \in Handles :
           /\ shown[h] # NoShown
           /\ \A u \in Units : autolink_cache[u].sent_msg # h

\* C26 as claimed: a new message has an entry only if a response with its
\* resolved items was sent.
C26_OnlyWithItems ==
    (ev.kind = "message" /\ autolink_cache[ev.unit].present) =>
        /\ ev.outcome = "sent"
        /\ shown[autolink_cache[ev.unit].sent_msg].links # <<>>

\* C26 amended: a new message has an entry exactly if a response was sent
\* for it, which is the response with its resolved items or the too-many
\* error; the entry holds that response and all references of the message.
\* An edit makes no entry.
C26_OnlyWithResponse ==
    /\ ev.kind = "message" =>
           /\ autolink_cache[ev.unit].present <=> ev.outcome \in {"sent", "too many"}
           /\ autolink_cache[ev.unit].present =>
                  /\ autolink_cache[ev.unit].issues = ev.extracted
                  /\ shown[autolink_cache[ev.unit].sent_msg].of = ev.extracted
                  /\ IF ev.outcome = "sent"
                     THEN shown[autolink_cache[ev.unit].sent_msg].links # <<>>
                     ELSE shown[autolink_cache[ev.unit].sent_msg].embed = "too many"
    /\ (ev.kind = "edit" /\ autolink_cache[ev.unit].present) => ev.before.present

\* A new message with more than MAXIMUM_ISSUES references has an entry.
C26_Witness ==
    /\ ev.kind = "message"
    /\ ev.outcome = "too many"
    /\ autolink_cache[ev.unit].present
    /\ Len(autolink_cache[ev.unit].issues) > MAXIMUM_ISSUES

\* The step is a click on an expand button.
ClickStep == events' # events /\ ev'.kind = "click"

\* C27: a click on a button of state 1 by a user other than the one of its
\* custom_id is refused: the response and its button stay as they are and
\* fetch_issues is not called.  Such a click on a button of state 0 sends
\* the item expanded in an ephemeral message and leaves the response and
\* its button as they are.  No click changes an entry of autolink_cache.
C27_OnlyOwnerSwaps ==
    [][ClickStep =>
           /\ autolink_cache' = autolink_cache
           /\ ev'.author # ev'.custom_id.user_id =>
                  /\ shown' = shown
                  /\ IF ev'.custom_id.current_state = 1
                     THEN /\ ev'.outcome = "refused"
                          /\ ev'.fetched = <<>>
                          /\ ev'.ephemeral = "cannot collapse"
                     ELSE /\ ev'.outcome = "private"
                          /\ ~ev'.gone =>
                                /\ Len(ev'.fetched) = 1
                                /\ Names(ev'.custom_id, ev'.fetched[1])
                                /\ ev'.fetched[1].raw_json # None =>
                                      ev'.ephemeral = "expanded"]_vars

\* A user who is not the author clicked an expanded response.
C27_Witness ==
    /\ ev.kind = "click"
    /\ ev.author # ev.custom_id.user_id
    /\ ev.outcome = "refused"
    /\ shown[ev.handle].embed = "expanded"
    /\ shown[ev.handle].button = ev.custom_id

\* C28: a click by the user of the custom_id gives the button the same
\* custom_id with the other state; the second of two such clicks in a row
\* on a response gives it the custom_id it had before the first.
C28_FlipsState ==
    [][(ClickStep /\ ev'.author = ev'.custom_id.user_id) =>
           /\ ev'.outcome = "swapped"
           /\ shown'[ev'.handle].button =
                  [ev'.custom_id EXCEPT !.current_state = 1 - ev'.custom_id.current_state]
           /\ shown'[ev'.handle].button.current_state \in {0, 1}
           /\ ( /\ ev.kind = "click" /\ ev.outcome = "swapped"
                /\ ev.handle = ev'.handle ) =>
                  shown'[ev'.handle].button = ev.custom_id]_vars

\* The author clicked twice.
C28_Witness ==
    /\ ev.kind = "click"
    /\ ev.outcome = "swapped"
    /\ shown[ev.handle].button = shown[ev.handle].sent
    /\ shown[ev.handle].button # ev.custom_id

(***************************************************************************)
(* Properties of the custom_id.                                            *)
(***************************************************************************)

\* C29: the custom_id of every button that get_expand_button makes matches
\* the regex of swap_embed_state, and its groups are the five values it was
\* made of; a custom_id of the prefix that does not match the regex is
\* answered with the error and nothing else.
C29_RoundTrip ==
    tpc \in {"ignored", "invalid", "matched"} =>
        IF made # NoButton
        THEN /\ tpc = "matched"
             /\ matched = [made EXCEPT !.current_state =
                                           IF made.current_state = 1 THEN "1" ELSE "0"]
        ELSE /\ tpc \in {"ignored", "invalid"}
             /\ matched = NoButton
             /\ shown = [h \in Handles |-> NoShown]

(***************************************************************************)
(* Properties of fetch_issues.                                             *)
(***************************************************************************)

\* C30: a pull is classified by priority: merged_at set gives merged
\* whatever state and draft are; otherwise state closed gives closed
\* whatever draft is; otherwise draft set gives draft; otherwise open.
C30_PullPriority ==
    ( /\ rpc = "returned"
      /\ ~upstream.json.message
      /\ upstream.json.pull_request # NoPull ) =>
        /\ upstream.json.pull_request.merged_at # None =>
              result.emoji = "pull_request_merged"
        /\ ( /\ upstream.json.pull_request.merged_at = None
             /\ upstream.json.state = "closed" ) =>
              result.emoji = "pull_request_closed"
        /\ ( /\ upstream.json.pull_request.merged_at = None
             /\ upstream.json.state # "closed"
             /\ upstream.json.draft ) =>
              result.emoji = "pull_request_draft"
        /\ ( /\ upstream.json.pull_request.merged_at = None
             /\ upstream.json.state # "closed"
             /\ ~upstream.json.draft ) =>
              result.emoji = "pull_request_open"

\* A merged pull, closed as merged pulls are, that was a draft.
C30_Witness ==
    /\ rpc = "returned"
    /\ upstream.json.pull_request # NoPull
    /\ upstream.json.pull_request.merged_at # None
    /\ upstream.json.state = "closed"
    /\ upstream.json.draft
    /\ result.emoji = "pull_request_merged"

\* The call returned an IssueState made of the json of the issue endpoint,
\* and the json is that of an issue.
PlainIssue ==
    /\ rpc = "returned"
    /\ ~upstream.json.message
    /\ upstream.json.pull_request = NoPull

\* C31: an issue that is open is classified open whatever its
\* state_reason is; one that is not open is closed_unplanned for the reason
\* not_planned, closed_completed for completed, and closed for any other
\* reason and for none.
C31_IssueReason ==
    PlainIssue =>
        /\ upstream.json.state = "open" => result.emoji = "issue_open"
        /\ ( /\ upstream.json.state # "open"
             /\ upstream.json.state_reason = "not_planned" ) =>
              result.emoji = "issue_closed_unplanned"
        /\ ( /\ upstream.json.state # "open"
             /\ upstream.json.state_reason = "completed" ) =>
              result.emoji = "issue_closed_completed"
        /\ ( /\ upstream.json.state # "open"
             /\ upstream.json.state_reason \notin {"not_planned", "completed"} ) =>
              result.emoji = "issue_closed"

\* An open issue that was closed as not planned before and bears the
\* reason still.
C31_Witness ==
    /\ PlainIssue
    /\ upstream.json.state = "open"
    /\ upstream.json.state_reason = "not_planned"
    /\ result.emoji = "issue_open"

\* C32: the gql query is sent only when the issue endpoint answered that
\* the item is not found and the caller allows discussions; no other
\* answer of the issue endpoint, an item, a rate limit or another error,
\* leads to the query.
C32_FallbackOnlyNotFound ==
    rpc = "gql" => upstream.status = 404 /\ upstream.allow_discussions

\* C33: when the issue endpoint answers not found and the caller does not
\* allow discussions, fetch_issues returns FetchError(404, "Issue not
\* found.") and sends no gql query; when the gql query raises, it returns
\* FetchError(-1, "Issue not found."); either result is a FetchError and
\* nothing else.
C33_Failures ==
    [][ /\ ( /\ rpc = "called"
             /\ upstream.status = 404
             /\ ~upstream.allow_discussions ) =>
               /\ rpc' = "returned"
               /\ result' = FetchError(404, "Issue not found.")
        /\ ( /\ rpc = "gql"
             /\ upstream.gql.raises ) =>
               /\ rpc' = "returned"
               /\ result' = FetchError(-1, "Issue not found.") ]_vars

\* The query for the discussion raised.
C33_Witness ==
    /\ rpc = "returned"
    /\ upstream.status = 404
    /\ upstream.allow_discussions
    /\ upstream.gql.raises
    /\ result.error
    /\ result.status_code = -1

\* The IssueState that format_embed is given for a result of fetch_issues:
\* raw_json is None or the json.
AsIssueState(res) ==
    IssueState("ab", "cd", "1", IF res.raw_json = NoJson THEN None ELSE "json")

\* C36: the IssueState of an issue or a pull has the json of the issue
\* endpoint as raw_json; the IssueState of a discussion, found through gql,
\* has none, and format_embed makes the list of it also when it is asked to
\* expand the one item.
C36_RawJson ==
    (rpc = "returned" /\ ~result.error) =>
        /\ result.raw_json = NoJson <=> upstream.json.message
        /\ ~upstream.json.message =>
              /\ result.raw_json = upstream.json
              /\ FormatEmbed(<<AsIssueState(result)>>, TRUE).embed = "expanded"
        /\ upstream.json.message =>
              FormatEmbed(<<AsIssueState(result)>>, TRUE).embed = "list"

\* An answered discussion.
C36_Witness ==
    /\ rpc = "returned"
    /\ ~result.error
    /\ upstream.json.message
    /\ result.emoji = "discussion_answered"
    /\ result.raw_json = NoJson

(***************************************************************************)
(* Further properties of the listeners.                                    *)
(***************************************************************************)

\* C40: when sent_msg.edit raises HTTPException the entry of the message
\* is deleted from autolink_cache and the response stays as it was; an edit
\* of the message after that finds no entry and changes nothing.
C40_FailedEditForgets ==
    [][ /\ (EditStep /\ ev'.outcome = "edit failed") =>
              /\ ev'.before.present
              /\ ~autolink_cache'[ev'.unit].present
              /\ shown' = shown
        /\ ( /\ ev.kind = "edit" /\ ev.outcome = "edit failed"
             /\ events' # events /\ ev'.kind = "edit" /\ ev'.unit = ev.unit ) =>
              /\ ev'.outcome = "no entry"
              /\ autolink_cache' = autolink_cache
              /\ shown' = shown ]_vars

\* The edit of the response failed and the entry is gone.
C40_Witness ==
    /\ ev.kind = "edit"
    /\ ev.outcome = "edit failed"
    /\ ev.before.present
    /\ ~autolink_cache[ev.unit].present
    /\ units[ev.unit].state = "posted"

\* The step is a run of on_message_automatic_issue_link that sent the
\* list or the item.
SentStep == events' # events /\ ev'.kind = "message" /\ ev'.outcome = "sent"

\* C39: in a guild without the expand feature the response to a new
\* message shows its item expanded only if the item is that of a reference
\* of the message that asks for expansion, a link; a link that does not
\* resolve never has the item of a short-form reference expanded.
C39_ExpandedOnlyIfAsked ==
    [][ ( /\ SentStep
          /\ ~expandFeature
          /\ shown'[autolink_cache'[ev'.unit].sent_msg].embed = "expanded" ) =>
            \E i \in DOMAIN ev'.extracted :
                /\ ev'.extracted[i].should_be_expanded
                /\ Names(shown'[autolink_cache'[ev'.unit].sent_msg].button,
                         ev'.extracted[i])
                /\ shown'[autolink_cache'[ev'.unit].sent_msg].links
                       = <<FetchIssues(ev'.extracted[i])>> ]_vars

\* A link that does not resolve beside a short-form reference that does:
\* the list is sent.
C39_Witness ==
    /\ ev.kind = "message"
    /\ ev.outcome = "sent"
    /\ ~expandFeature
    /\ Len(ev.extracted) = 2
    /\ ~ev.extracted[1].should_be_expanded /\ Resolves(ev.extracted[1])
    /\ ev.extracted[2].should_be_expanded /\ ~Resolves(ev.extracted[2])
    /\ shown[autolink_cache[ev.unit].sent_msg].embed = "list"

\* C38: the state of the expand button of a response is 1 exactly when the
\* response shows its item expanded, whatever messages, edits and clicks
\* came before.
C38_StateIsRendering ==
    \A h \in Handles :
        shown[h].button # NoButton =>
            (shown[h].button.current_state = 1 <=> shown[h].embed = "expanded")

\* C34: a reference whose fetch_issues fails, by not found, by the rate
\* limit or by the transport, is left out of the response and the others
\* of the message are resolved all the same: once the loop of a new message
\* is over, the response shows every item that GitHub has, unless more
\* than one of them asks for expansion.
C34_SiblingsResolved ==
    [][ \A u \in Units :
          ( /\ suspended[u].kind = "message"
            /\ suspended'[u] = NoListener
            /\ Links(suspended[u].issues) # <<>>
            /\ TotalPreExpanded(suspended[u].issues) <= 1 ) =>
              /\ ev'.outcome = "sent"
              /\ autolink_cache'[u].present
              /\ shown'[autolink_cache'[u].sent_msg].links
                     = Links(suspended[u].issues) ]_vars

\* C35: once on_message_delete has run for a message, autolink_cache has
\* no entry for it, whatever listeners of the message were waiting for
\* fetch_issues then and go on afterwards.
C35_NoEntryAfterDelete ==
    \A u \in Units : units[u].state = "deleted" => ~autolink_cache[u].present

(***************************************************************************)
(* Liveness of fetch_data.                                                 *)
(***************************************************************************)

\* C37: when every request sent is answered or raises, every call of
\* fetch_data that queues for the lock of its key gets the lock; a call
\* whose request raises leaves the lock free for the calls behind it.
C37_WaitersAcquire ==
    \A p \in Procs : (pc[p] = "wait") ~> (pc[p] = "get")

\* A call that queued holds the lock of its key, and the call before it
\* on that key ended by the exception of its request.
C37_Witness ==
    \E p \in Procs :
        /\ pc[p] = "get"
        /\ waited[p]
        /\ last.line = 239
        /\ last.key = ckey[p]
        /\ last.ret = Raised

====
